---- MODULE Spec2Model ----
(***************************************************************************)
(* Verification model of the gateway's two core subsystems:                *)
(*   - the Batch Executor (services/grok/batch.rs), the Batch Task and the *)
(*     Task Registry (core/batch_tasks.rs) and the asynchronous bulk       *)
(*     operations and streaming endpoint that drive them (api/v1/admin.rs) *)
(*   - the Credential entity, pool and manager (services/token/*.rs).      *)
(***************************************************************************)
EXTENDS Integers, Sequences, FiniteSets, TLC

VARIABLES
    task,      \* the BatchTask record (core/batch_tasks.rs:10-24)
    TASKS,     \* the task registry: ids currently in the map
    chan,      \* per client: the mpsc channel created by attach()
    stream,    \* per client: position and output of its stream_batch stream
    job,       \* the spawned bulk job: run_in_batches locals and position
    worker,    \* per item position: state of the spawned worker task
    permits,   \* available permits of the run_in_batches semaphore
    expire,    \* the expire_task timer: "none", "pending" or "fired"
    cancelEnv, \* what a caller-supplied should_cancel predicate returns now
    hist,      \* observations of the executor kept for the properties
    mgr,       \* the TokenManager: its pools and its initialized flag
    storage,   \* the Storage collaborator: the persisted token document
    req,       \* per API request: the token it holds between selection and consumption
    refresh,   \* tokens the running quota refresh has still to query
    last,      \* the last manager call and what it returned
    cred,      \* one TokenInfo object driven through its methods, with its last call
    lock,      \* holder of the TokenManager mutex, "free" if none
    proc,      \* position of every task that takes the TokenManager mutex
    store,     \* the RotationStore: loaded flag and RotationStateData
    rfile,     \* content of data/imagine_nsfw_state.json
    now,       \* the wall clock, in minutes
    gen,       \* per generate call: its locals and position
    slast      \* the last rotation store operation and what it returned

lockVars == <<lock, proc>>
storeVars == <<store, rfile, now, gen, slast>>
\* state outside the manager, its storage and its callers
extraVars == <<cred, lockVars, storeVars>>
credVars == <<mgr, storage, req, refresh, last, extraVars>>
batchVars == <<task, TASKS, chan, stream, job, worker, permits, expire, cancelEnv, hist>>
vars == <<batchVars, credVars>>

----------------------------------------------------------------------------
(* Bounds of the model.                                                    *)

\* longest item list handed to run_in_batches
MaxItems == 3
\* capacity of a subscriber channel. attach() creates mpsc::channel(200); the
\* protocol is the same at every capacity, and the model runs it at a capacity
\* that the item lists above can fill.
ChannelCap == 2
\* heartbeat timeouts one stream may take
MaxTimeouts == 1
\* record calls made directly on a BatchTask object
MaxRecords == 3
\* finish / fail_task / finish_cancelled calls made directly on a BatchTask object
MaxTerminalCalls == 2
\* use_count up to which a TokenInfo object is still charged
MaxUseCount == 6
\* fail_count up to which a TokenInfo object still records authentication failures
MaxFailCount == 6
\* generate calls made one after another
MaxCalls == 3
\* writes of the rotation state file that fail
MaxLostWrites == 1
\* latest clock value, in minutes
MaxNow == 1442
\* TokenManager operations called one after another
MaxOps == 2

ItemNames == {"a", "b"}
Clients == {"c1", "c2"}
\* the client whose stream the bulk flows and the single-subscriber runs follow
FlowClients == {"c1"}
TaskId == "t1"
Flows == {"refresh", "nsfw", "clear", "load"}
MaxConcurrentInputs == {0, 1, 2}
BatchSizeInputs == {0, 1, 2}
\* values of the performance.*_max_concurrent / *_batch_size settings the bulk
\* handlers read (admin.rs:261-264, 508-511, 943-944, 1082-1083)
FlowConfigInputs == {1, 2}

Max(a, b) == IF a >= b THEN a ELSE b
Min(a, b) == IF a <= b THEN a ELSE b
InSeq(x, s) == \E i \in 1..Len(s) : s[i] = x

----------------------------------------------------------------------------
(* BatchTask: core/batch_tasks.rs                                          *)

NoResult == [kind |-> "None", total |-> 0, ok |-> 0, fail |-> 0]
NoEvent == [type |-> "none", total |-> 0, processed |-> 0, ok |-> 0, fail |-> 0]

Event(t, type) ==
    [type |-> type, total |-> t.total, processed |-> t.processed,
     ok |-> t.ok, fail |-> t.fail]

Terminal == {"done", "error", "cancelled"}

BatchTask_new(total) ==
    [total |-> total, processed |-> 0, ok |-> 0, fail |-> 0,
     status |-> "running", warning |-> "None", result |-> NoResult,
     error |-> "None", cancelled |-> FALSE, final_event |-> NoEvent,
     queues |-> <<>>]

snapshot(t) == Event(t, "snapshot")

\* mpsc::Sender::try_send succeeds iff the receiver is alive and a slot is free
try_send_ok(ch) == ch.rx_open /\ Len(ch.buf) < ChannelCap

\* publish that keeps every sender in the subscriber list
publish_KeepAll(t, ch, event) ==
    [task |-> t,
     chan |-> [c \in Clients |->
                 IF InSeq(c, t.queues) /\ try_send_ok(ch[c])
                 THEN [ch[c] EXCEPT !.buf = Append(@, event)]
                 ELSE ch[c]]]

\* publish that puts the event in front of the waiting ones
publish_Prepend(t, ch, event) ==
    [task |-> [t EXCEPT !.queues = SelectSeq(t.queues, LAMBDA c : try_send_ok(ch[c]))],
     chan |-> [c \in Clients |->
                 IF InSeq(c, t.queues) /\ try_send_ok(ch[c])
                 THEN [ch[c] EXCEPT !.buf = <<event>> \o @]
                 ELSE ch[c]]]

\* publish: queues.retain(|tx| tx.try_send(event.clone()).is_ok())
publish(t, ch, event) ==
    [task |-> [t EXCEPT !.queues = SelectSeq(t.queues, LAMBDA c : try_send_ok(ch[c]))],
     chan |-> [c \in Clients |->
                 IF InSeq(c, t.queues) /\ try_send_ok(ch[c])
                 THEN [ch[c] EXCEPT !.buf = Append(@, event)]
                 ELSE ch[c]]]

\* attach: a fresh channel whose sender is pushed onto queues
attach(t, ch, c) ==
    [task |-> [t EXCEPT !.queues = Append(@, c)],
     chan |-> [ch EXCEPT ![c] = [buf |-> <<>>, rx_open |-> TRUE]]]

\* record that counts the item as processed only
record_ProcessedOnly(t, ch, ok) ==
    LET t1 == [t EXCEPT !.processed = @ + 1]
    IN publish(t1, ch, Event(t1, "progress"))

record(t, ch, ok) ==
    LET t1 == [t EXCEPT !.processed = @ + 1,
                        !.ok = IF ok THEN @ + 1 ELSE @,
                        !.fail = IF ok THEN @ ELSE @ + 1]
    IN publish(t1, ch, Event(t1, "progress"))

\* finish that publishes the done event without caching it
finish_NoCache(t, ch, result, warning) ==
    LET t1 == [t EXCEPT !.status = "done", !.result = result, !.warning = warning]
    IN publish(t1, ch, Event(t1, "done"))

finish(t, ch, result, warning) ==
    LET t1 == [t EXCEPT !.status = "done", !.result = result, !.warning = warning]
        t2 == [t1 EXCEPT !.final_event = Event(t1, "done")]
    IN publish(t2, ch, Event(t1, "done"))

fail_task(t, ch, error) ==
    LET t1 == [t EXCEPT !.status = "error", !.error = error]
        t2 == [t1 EXCEPT !.final_event = Event(t1, "error")]
    IN publish(t2, ch, Event(t1, "error"))

\* cancel that also moves the task to Cancelled
cancel_SetsStatus(t) == [t EXCEPT !.cancelled = TRUE, !.status = "cancelled"]

cancel(t) == [t EXCEPT !.cancelled = TRUE]

finish_cancelled(t, ch) ==
    LET t1 == [t EXCEPT !.status = "cancelled"]
        t2 == [t1 EXCEPT !.final_event = Event(t1, "cancelled")]
    IN publish(t2, ch, Event(t1, "cancelled"))

final_event(t) == t.final_event

----------------------------------------------------------------------------
(* run_in_batches: services/grok/batch.rs                                  *)

Outcomes == {"Ok_true", "Ok_false", "Err"}
is_ok(res) == res \in {"Ok_true", "Ok_false"}
Resolved(i) == worker[i] \in Outcomes
InFlight == {i \in 1..MaxItems : worker[i] = "running"}

\* let max_concurrent = max_concurrent.max(1); let batch_size = batch_size.max(1)
max_concurrent == Max(job.max_concurrent, 1)
batch_size == Max(job.batch_size, 1)

\* items.chunks(batch_size): the chunk that starts after job.chunk items
ChunkEnd == Min(job.chunk + batch_size, Len(job.items))

\* outcomes a worker can return: the bulk operations' workers always return
\* Ok(payload) (admin.rs:300, 538, 937-939, 1075-1078); a worker passed to
\* run_in_batches directly may also return Err
WorkerOutcomes == IF job.flow = "direct" THEN {"Ok_true", "Err"} ELSE {"Ok_true", "Ok_false"}

NoResults == [n \in ItemNames |-> "absent"]
Keys(results) == {n \in ItemNames : results[n] # "absent"}

\* ChunkStart with `continue` in place of `break`: a cancelled chunk is skipped
ChunkStart_Continue ==
    /\ job.pc = "chunk"
    /\ IF job.chunk >= Len(job.items)
       THEN /\ job' = [job EXCEPT !.pc = "returned"]
            /\ hist' = hist
       ELSE IF job.should_cancel /\ cancelEnv
       THEN /\ job' = [job EXCEPT !.chunk = ChunkEnd]
            /\ hist' = IF hist.broke THEN hist
                       ELSE [hist EXCEPT !.broke = TRUE, !.broke_at = job.chunk]
       ELSE /\ job' = [job EXCEPT !.pc = "spawn", !.next = job.chunk + 1]
            /\ hist' = hist
    /\ UNCHANGED <<credVars, task, TASKS, chan, stream, worker, permits, expire, cancelEnv>>

\* top of `for chunk in items.chunks(batch_size)`: the loop ends when the items
\* are exhausted, breaks when should_cancel is Some and returns true, and
\* otherwise enters the spawn loop of the chunk
ChunkStart ==
    /\ job.pc = "chunk"
    /\ IF job.chunk >= Len(job.items)
       THEN /\ job' = [job EXCEPT !.pc = "returned"]
            /\ hist' = hist
       ELSE IF job.should_cancel /\ cancelEnv
       THEN /\ job' = [job EXCEPT !.pc = "returned"]
            /\ hist' = [hist EXCEPT !.broke = TRUE, !.broke_at = job.chunk]
       ELSE /\ job' = [job EXCEPT !.pc = "spawn", !.next = job.chunk + 1]
            /\ hist' = hist
    /\ UNCHANGED <<credVars, task, TASKS, chan, stream, worker, permits, expire, cancelEnv>>

\* SpawnItem with the permit acquired nowhere before the spawn
SpawnItem_NoPermit ==
    /\ job.pc = "spawn"
    /\ permits' = permits - 1
    /\ worker' = [worker EXCEPT ![job.next] = "running"]
    /\ job' = IF job.next = ChunkEnd
              THEN [job EXCEPT !.pc = "join", !.join = job.chunk + 1, !.next = job.next + 1]
              ELSE [job EXCEPT !.next = job.next + 1]
    /\ UNCHANGED <<credVars, task, TASKS, chan, stream, expire, cancelEnv, hist>>

\* sem.acquire_owned().await, then tokio::spawn of the worker holding the permit
SpawnItem ==
    /\ job.pc = "spawn"
    /\ permits > 0
    /\ permits' = permits - 1
    /\ worker' = [worker EXCEPT ![job.next] = "running"]
    /\ job' = IF job.next = ChunkEnd
              THEN [job EXCEPT !.pc = "join", !.join = job.chunk + 1, !.next = job.next + 1]
              ELSE [job EXCEPT !.next = job.next + 1]
    /\ UNCHANGED <<credVars, task, TASKS, chan, stream, expire, cancelEnv, hist>>

\* the spawned task: worker_fn(item).await resolves, the permit is dropped
WorkerResolve(i, res) ==
    /\ worker[i] = "running"
    /\ res \in WorkerOutcomes
    /\ worker' = [worker EXCEPT ![i] = res]
    /\ permits' = permits + 1
    /\ UNCHANGED <<credVars, task, TASKS, chan, stream, job, expire, cancelEnv, hist>>

\* JoinHandle whose callback is told ok = true whatever the worker returned
JoinHandle_AlwaysOk ==
    /\ job.pc = "join"
    /\ Resolved(job.join)
    /\ job' = [job EXCEPT !.pc = "insert"]
    /\ IF job.on_item
       THEN LET r == record(task, chan, TRUE)
            IN /\ task' = r.task
               /\ chan' = r.chan
               /\ hist' = [hist EXCEPT !.calls = Append(@, <<job.join, TRUE>>)]
       ELSE UNCHANGED <<credVars, task, chan, hist>>
    /\ UNCHANGED <<credVars, TASKS, stream, worker, permits, expire, cancelEnv>>

\* handle.await of the next handle, then cb(item, res.is_ok()).await; the
\* callback of the bulk operations is task.lock().await.record(ok, ..)
JoinHandle ==
    /\ job.pc = "join"
    /\ Resolved(job.join)
    /\ job' = [job EXCEPT !.pc = "insert"]
    /\ IF job.on_item
       THEN LET r == record(task, chan, is_ok(worker[job.join]))
            IN /\ task' = r.task
               /\ chan' = r.chan
               /\ hist' = [hist EXCEPT !.calls = Append(@, <<job.join, is_ok(worker[job.join])>>)]
       ELSE UNCHANGED <<credVars, task, chan, hist>>
    /\ UNCHANGED <<credVars, TASKS, stream, worker, permits, expire, cancelEnv>>

\* InsertResult that keeps successes only
InsertResult_DropErr ==
    /\ job.pc = "insert"
    /\ job' = [job EXCEPT
                 !.results = IF is_ok(worker[job.join])
                             THEN [@ EXCEPT ![job.items[job.join]] = worker[job.join]]
                             ELSE @,
                 !.join = job.join + 1,
                 !.pc = IF job.join = ChunkEnd THEN "chunk" ELSE "join",
                 !.chunk = IF job.join = ChunkEnd THEN ChunkEnd ELSE @]
    /\ UNCHANGED <<credVars, task, TASKS, chan, stream, worker, permits, expire, cancelEnv, hist>>

\* results.insert(item, res), then the next handle or the next chunk
InsertResult ==
    /\ job.pc = "insert"
    /\ job' = [job EXCEPT
                 !.results = [@ EXCEPT ![job.items[job.join]] = worker[job.join]],
                 !.join = job.join + 1,
                 !.pc = IF job.join = ChunkEnd THEN "chunk" ELSE "join",
                 !.chunk = IF job.join = ChunkEnd THEN ChunkEnd ELSE @]
    /\ UNCHANGED <<credVars, task, TASKS, chan, stream, worker, permits, expire, cancelEnv, hist>>

\* the environment of a caller-supplied should_cancel predicate
EnvCancel ==
    /\ job.should_cancel
    /\ job.pc \in {"chunk", "spawn", "join", "insert"}
    /\ cancelEnv' = ~cancelEnv
    /\ UNCHANGED <<credVars, task, TASKS, chan, stream, job, worker, permits, expire, hist>>

----------------------------------------------------------------------------
(* The asynchronous bulk operations: api/v1/admin.rs                       *)
(* refresh_tokens_api_async, enable_nsfw_api_async,                        *)
(* clear_online_cache_api_async, load_online_cache_api_async               *)

\* the summary the job computes from the result map: an entry counts as ok when
\* its payload reports success (Ok(true), "success": true, "status": "success")
Summary(flow, items, results) ==
    [kind |-> flow,
     total |-> Len(items),
     ok |-> Cardinality({n \in Keys(results) : results[n] = "Ok_true"}),
     fail |-> Cardinality({n \in Keys(results) : results[n] # "Ok_true"})]

\* after run_in_batches(..).await: `if task.lock().await.cancelled` in the
\* refresh, nsfw and clear jobs; the load job has no such test
AfterRun ==
    /\ job.pc = "returned"
    /\ job.flow \in Flows
    /\ job' = [job EXCEPT !.pc = IF job.flow # "load" /\ task.cancelled
                                 THEN "finish_cancelled" ELSE "finish"]
    /\ UNCHANGED <<credVars, task, TASKS, chan, stream, worker, permits, expire, cancelEnv, hist>>

\* task.lock().await.finish_cancelled(); return;
JobFinishCancelled ==
    /\ job.pc = "finish_cancelled"
    /\ LET r == finish_cancelled(task, chan)
       IN task' = r.task /\ chan' = r.chan
    /\ job' = [job EXCEPT !.pc = "ended"]
    /\ UNCHANGED <<credVars, TASKS, stream, worker, permits, expire, cancelEnv, hist>>

\* task.lock().await.finish(result, warning)
JobFinish ==
    /\ job.pc = "finish"
    /\ LET r == finish(task, chan, Summary(job.flow, job.items, job.results), "None")
       IN task' = r.task /\ chan' = r.chan
    /\ job' = [job EXCEPT !.pc = "spawn_expire"]
    /\ UNCHANGED <<credVars, TASKS, stream, worker, permits, expire, cancelEnv, hist>>

\* tokio::spawn(expire_task(task_id, 300))
JobSpawnExpire ==
    /\ job.pc = "spawn_expire"
    /\ expire' = "pending"
    /\ job' = [job EXCEPT !.pc = "ended"]
    /\ UNCHANGED <<credVars, task, TASKS, chan, stream, worker, permits, cancelEnv, hist>>

\* expire_task: the sleep elapses, delete_task removes the id from TASKS
expire_task ==
    /\ expire = "pending"
    /\ expire' = "fired"
    /\ TASKS' = TASKS \ {TaskId}
    /\ UNCHANGED <<credVars, task, chan, stream, job, worker, permits, cancelEnv, hist>>

\* positions of the job inside run_in_batches
ExecutorPcs == {"chunk", "spawn", "join", "insert"}

get_task == IF TaskId \in TASKS THEN "Some" ELSE "None"

\* cancel_batch: get_task, then task.lock().await.cancel()
cancel_batch ==
    /\ get_task = "Some"
    /\ ~task.cancelled
    /\ task' = cancel(task)
    /\ hist' = [hist EXCEPT !.cancel_in_run = job.pc \in ExecutorPcs]
    /\ UNCHANGED <<credVars, TASKS, chan, stream, job, worker, permits, expire, cancelEnv>>

----------------------------------------------------------------------------
(* stream_batch: api/v1/admin.rs:1131-1173                                 *)

Emit(c, ev) == [stream[c] EXCEPT !.out = Append(@, ev)]
\* a stream that goes on receiving after its last event
End_KeepReceiving(st) == [st EXCEPT !.pc = "recv"]
End(st) == [st EXCEPT !.pc = "ended"]
\* the stream and its receiver are dropped when the stream ends
CloseRx(ch, c) == [ch EXCEPT ![c].rx_open = FALSE]

\* get_task(&task_id) fails: 404 and no stream
StreamNotFound(c) ==
    /\ stream[c].pc = "idle"
    /\ get_task = "None"
    /\ stream' = [stream EXCEPT ![c].pc = "not_found"]
    /\ UNCHANGED <<credVars, task, TASKS, chan, job, worker, permits, expire, cancelEnv, hist>>

\* let mut rx = task.lock().await.attach()
StreamAttach(c) ==
    /\ stream[c].pc = "idle"
    /\ get_task = "Some"
    /\ LET r == attach(task, chan, c)
       IN task' = r.task /\ chan' = r.chan
    /\ stream' = [stream EXCEPT ![c].pc = "snapshot"]
    /\ UNCHANGED <<credVars, TASKS, job, worker, permits, expire, cancelEnv, hist>>

\* yield the snapshot
StreamSnapshot(c) ==
    /\ stream[c].pc = "snapshot"
    /\ stream' = [stream EXCEPT ![c] = [Emit(c, snapshot(task)) EXCEPT !.pc = "check_final"]]
    /\ UNCHANGED <<credVars, task, TASKS, chan, job, worker, permits, expire, cancelEnv, hist>>

\* if let Some(final_event) = final_event() { yield; return } before the loop,
\* and the same test after a heartbeat
StreamCheckFinal(c) ==
    /\ stream[c].pc \in {"check_final", "ping_check"}
    /\ IF final_event(task) # NoEvent
       THEN /\ stream' = [stream EXCEPT ![c] = End(Emit(c, final_event(task)))]
            /\ chan' = CloseRx(chan, c)
       ELSE /\ stream' = [stream EXCEPT ![c].pc = "recv"]
            /\ chan' = chan
    /\ UNCHANGED <<credVars, task, TASKS, job, worker, permits, expire, cancelEnv, hist>>

\* Ok(Some(event)): forward it, stop after a terminal one
StreamRecv(c) ==
    /\ stream[c].pc = "recv"
    /\ chan[c].buf # <<>>
    /\ LET ev == Head(chan[c].buf)
           ch1 == [chan EXCEPT ![c].buf = Tail(@)]
       IN IF ev.type \in Terminal
          THEN /\ stream' = [stream EXCEPT ![c] = End(Emit(c, ev))]
               /\ chan' = CloseRx(ch1, c)
          ELSE /\ stream' = [stream EXCEPT ![c] = Emit(c, ev)]
               /\ chan' = ch1
    /\ UNCHANGED <<credVars, task, TASKS, job, worker, permits, expire, cancelEnv, hist>>

\* Ok(None): the channel is empty and its sender has been dropped from queues
StreamClosed(c) ==
    /\ stream[c].pc = "recv"
    /\ chan[c].buf = <<>>
    /\ ~InSeq(c, task.queues)
    /\ stream' = [stream EXCEPT ![c] = End(@)]
    /\ chan' = CloseRx(chan, c)
    /\ UNCHANGED <<credVars, task, TASKS, job, worker, permits, expire, cancelEnv, hist>>

\* Err(_): 15 s without an event: yield the heartbeat comment
StreamTimeout(c) ==
    /\ stream[c].pc = "recv"
    /\ chan[c].buf = <<>>
    /\ InSeq(c, task.queues)
    /\ stream[c].pings < MaxTimeouts
    /\ stream' = [stream EXCEPT ![c].pc = "ping_check", ![c].pings = @ + 1]
    /\ UNCHANGED <<credVars, task, TASKS, chan, job, worker, permits, expire, cancelEnv, hist>>

----------------------------------------------------------------------------
(* Initial states and next-state relations of the batch subsystem          *)

\* item lists of at most MaxItems items; an item may occur more than once
ItemLists == UNION {[1..n -> ItemNames] : n \in 0..MaxItems}
\* what the bulk handlers pass on: trimmed, non-empty tokens after Vec::dedup,
\* which removes consecutive repetitions only (admin.rs:246-251)
FlowItemLists == {l \in ItemLists : \A i \in 1..(Len(l) - 1) : l[i] # l[i + 1]}

NoChannel == [buf |-> <<>>, rx_open |-> FALSE]
IdleStream == [pc |-> "idle", out |-> <<>>, pings |-> 0]
NoHist == [broke |-> FALSE, broke_at |-> 0, calls |-> <<>>, cancel_in_run |-> FALSE,
           terminal_calls |-> 0]

Job(flow, items, mc, bs, on_item, should_cancel, pc) ==
    [pc |-> pc, flow |-> flow, items |-> items, max_concurrent |-> mc,
     batch_size |-> bs, on_item |-> on_item, should_cancel |-> should_cancel,
     chunk |-> 0, next |-> 1, join |-> 1, results |-> NoResults]

\* no stand-alone TokenInfo object
ParkedLock ==
    /\ lock = "free"
    /\ proc = <<>>

ParkedStore ==
    /\ store = [loaded |-> FALSE]
    /\ rfile = [kind |-> "none", lost |-> 0]
    /\ now = 0
    /\ gen = <<>>
    /\ slast = [op |-> "none"]

ParkedExtra ==
    /\ cred = [op |-> "none"]
    /\ ParkedLock
    /\ ParkedStore

\* parked credential subsystem (the batch specifications do not move it)
ParkedCred ==
    /\ mgr = [pools |-> <<>>, initialized |-> FALSE]
    /\ storage = [doc |-> <<>>]
    /\ req = <<>>
    /\ refresh = <<>>
    /\ last = [op |-> "none"]
    /\ ParkedExtra

InitBatchCommon(total) ==
    /\ task = BatchTask_new(total)
    /\ TASKS = {TaskId}
    /\ chan = [c \in Clients |-> NoChannel]
    /\ stream = [c \in Clients |-> IdleStream]
    /\ worker = [i \in 1..MaxItems |-> "idle"]
    /\ expire = "none"
    /\ cancelEnv = FALSE
    /\ hist = NoHist
    /\ ParkedCred

\* state after one of the four bulk handlers has created the task and spawned
\* its job: on_item is Some(record), should_cancel is None (admin.rs:305-306,
\* 549-550, 945-946, 1084-1085)
InitFlow ==
    \E flow \in Flows, items \in FlowItemLists,
       mc \in FlowConfigInputs, bs \in FlowConfigInputs :
        /\ job = Job(flow, items, mc, bs, TRUE, FALSE, "chunk")
        /\ permits = Max(mc, 1)
        /\ InitBatchCommon(Len(items))

\* a direct call of run_in_batches with inputs drawn from the bounded sets
InitBatch ==
    \E items \in ItemLists, mc \in MaxConcurrentInputs, bs \in BatchSizeInputs,
       on_item \in BOOLEAN, should_cancel \in BOOLEAN :
        /\ job = Job("direct", items, mc, bs, on_item, should_cancel, "chunk")
        /\ permits = Max(mc, 1)
        /\ InitBatchCommon(Len(items))

NextBatch ==
    \/ ChunkStart
    \/ SpawnItem
    \/ \E i \in 1..MaxItems, res \in Outcomes : WorkerResolve(i, res)
    \/ JoinHandle
    \/ InsertResult
    \/ EnvCancel

NextFlow ==
    \/ ChunkStart
    \/ SpawnItem
    \/ \E i \in 1..MaxItems, res \in Outcomes : WorkerResolve(i, res)
    \/ JoinHandle
    \/ InsertResult
    \/ AfterRun
    \/ JobFinishCancelled
    \/ JobFinish
    \/ JobSpawnExpire
    \/ expire_task
    \/ cancel_batch
    \/ \E c \in FlowClients : StreamNotFound(c)
    \/ \E c \in FlowClients : StreamAttach(c)
    \/ \E c \in FlowClients : StreamSnapshot(c)
    \/ \E c \in FlowClients : StreamCheckFinal(c)
    \/ \E c \in FlowClients : StreamRecv(c)
    \/ \E c \in FlowClients : StreamClosed(c)
    \/ \E c \in FlowClients : StreamTimeout(c)

\* run_in_batches called directly
SpecBatch == InitBatch /\ [][NextBatch]_vars
\* the asynchronous bulk operations with their streams, cancel endpoint and expiry
SpecFlow == InitFlow /\ [][NextFlow]_vars

----------------------------------------------------------------------------
(* A BatchTask driven through its public methods in any order              *)

InitTask ==
    \E total \in {0, MaxItems} :
        /\ job = Job("none", <<>>, 1, 1, FALSE, FALSE, "none")
        /\ permits = 1
        /\ InitBatchCommon(total)

TaskRecord(ok) ==
    /\ task.processed < MaxRecords
    /\ LET r == record(task, chan, ok)
       IN task' = r.task /\ chan' = r.chan
    /\ UNCHANGED <<credVars, TASKS, stream, job, worker, permits, expire, cancelEnv, hist>>

TaskFinish(result) ==
    /\ hist.terminal_calls < MaxTerminalCalls
    /\ LET r == finish(task, chan, result, "None")
       IN task' = r.task /\ chan' = r.chan
    /\ hist' = [hist EXCEPT !.terminal_calls = @ + 1]
    /\ UNCHANGED <<credVars, TASKS, stream, job, worker, permits, expire, cancelEnv>>

TaskFailTask ==
    /\ hist.terminal_calls < MaxTerminalCalls
    /\ LET r == fail_task(task, chan, "error")
       IN task' = r.task /\ chan' = r.chan
    /\ hist' = [hist EXCEPT !.terminal_calls = @ + 1]
    /\ UNCHANGED <<credVars, TASKS, stream, job, worker, permits, expire, cancelEnv>>

TaskFinishCancelled ==
    /\ hist.terminal_calls < MaxTerminalCalls
    /\ LET r == finish_cancelled(task, chan)
       IN task' = r.task /\ chan' = r.chan
    /\ hist' = [hist EXCEPT !.terminal_calls = @ + 1]
    /\ UNCHANGED <<credVars, TASKS, stream, job, worker, permits, expire, cancelEnv>>

TaskResults == {[kind |-> "summary", total |-> 1, ok |-> 1, fail |-> 0]}

NextTask ==
    \/ \E ok \in BOOLEAN : TaskRecord(ok)
    \/ \E result \in TaskResults : TaskFinish(result)
    \/ TaskFailTask
    \/ TaskFinishCancelled
    \/ cancel_batch
    \/ \E c \in FlowClients : StreamAttach(c)
    \/ \E c \in FlowClients : StreamSnapshot(c)
    \/ \E c \in FlowClients : StreamCheckFinal(c)
    \/ \E c \in FlowClients : StreamRecv(c)
    \/ \E c \in FlowClients : StreamClosed(c)
    \/ \E c \in FlowClients : StreamTimeout(c)

SpecTask == InitTask /\ [][NextTask]_vars

\* two stream clients of one task whose methods are called directly: the
\* subscriber list of the task holds up to two senders. Every item succeeds
\* (publish does not look at the counters) and one terminal method is called.
InitSub ==
    /\ job = Job("none", <<>>, 1, 1, FALSE, FALSE, "none")
    /\ permits = 1
    /\ InitBatchCommon(MaxItems)

NextSub ==
    \/ TaskRecord(TRUE)
    \/ \E result \in TaskResults : hist.terminal_calls = 0 /\ TaskFinish(result)
    \/ hist.terminal_calls = 0 /\ TaskFailTask
    \/ hist.terminal_calls = 0 /\ TaskFinishCancelled
    \/ \E c \in Clients : StreamAttach(c)
    \/ \E c \in Clients : StreamSnapshot(c)
    \/ \E c \in Clients : StreamCheckFinal(c)
    \/ \E c \in Clients : StreamRecv(c)
    \/ \E c \in Clients : StreamClosed(c)
    \/ \E c \in Clients : StreamTimeout(c)

SpecSub == InitSub /\ [][NextSub]_vars

----------------------------------------------------------------------------
(* Credentials: services/token/models.rs                                   *)

DEFAULT_QUOTA == 80
FAIL_THRESHOLD == 5

Statuses == {"Active", "Disabled", "Expired", "Cooling"}

effort_cost(effort) == IF effort = "Low" THEN 1 ELSE 4

\* a token string with `sso` leading "sso=" prefixes before its raw text
Str(k, raw) == [sso |-> k, raw |-> raw]
\* str::trim_start_matches("sso="): every leading "sso=" is removed
trim_sso(str) == [str EXCEPT !.sso = 0]
NoneStr == [sso |-> 0, raw |-> "None"]

\* a 64-bit integer hi * 2^32 + lo, with lo in the i32 range
I64(hi, lo) == [hi |-> hi, lo |-> lo]
\* `x as i32`: the low 32 bits, read as a signed number
as_i32(x) == x.lo

TokenInfo_new(token) ==
    [token |-> token, status |-> "Active", quota |-> DEFAULT_QUOTA,
     last_used_at |-> "None", use_count |-> 0, fail_count |-> 0,
     last_fail_at |-> "None", last_fail_reason |-> "None",
     last_sync_at |-> "None", tags |-> {}, last_asset_clear_at |-> "None"]

is_available(t) == t.status = "Active" /\ t.quota > 0

\* consume with the full cost charged whatever quota is left
consume_NoClamp(t, effort) ==
    LET cost == effort_cost(effort)
        quota == t.quota - cost
    IN [info |-> [t EXCEPT !.last_used_at = "Some",
                           !.use_count = @ + cost,
                           !.quota = quota,
                           !.fail_count = 0,
                           !.last_fail_reason = "None",
                           !.status = IF quota = 0 THEN "Cooling"
                                      ELSE IF @ \in {"Cooling", "Expired"} THEN "Active"
                                      ELSE @],
        actual |-> cost]

\* consume with use_count counting calls instead of the amount charged
consume_CountCalls(t, effort) ==
    LET cost == effort_cost(effort)
        actual == Min(cost, t.quota)
        quota == Max(t.quota - actual, 0)
    IN [info |-> [t EXCEPT !.last_used_at = "Some",
                           !.use_count = @ + 1,
                           !.quota = quota,
                           !.fail_count = 0,
                           !.last_fail_reason = "None",
                           !.status = IF quota = 0 THEN "Cooling"
                                      ELSE IF @ \in {"Cooling", "Expired"} THEN "Active"
                                      ELSE @],
        actual |-> actual]

\* TokenInfo::consume: the updated credential and the returned amount
\* consume that tests for Cooling / Expired before it tests the quota
consume_ReviveFirst(t, effort) ==
    LET cost == effort_cost(effort)
        actual == Min(cost, t.quota)
        quota == Max(t.quota - actual, 0)
    IN [info |-> [t EXCEPT !.last_used_at = "Some",
                           !.use_count = @ + actual,
                           !.quota = quota,
                           !.fail_count = 0,
                           !.last_fail_reason = "None",
                           !.status = IF @ \in {"Cooling", "Expired"} THEN "Active"
                                      ELSE IF quota = 0 THEN "Cooling"
                                      ELSE @],
        actual |-> actual]

consume(t, effort) ==
    LET cost == effort_cost(effort)
        actual == Min(cost, t.quota)
        quota == Max(t.quota - actual, 0)
    IN [info |-> [t EXCEPT !.last_used_at = "Some",
                           !.use_count = @ + actual,
                           !.quota = quota,
                           !.fail_count = 0,
                           !.last_fail_reason = "None",
                           !.status = IF quota = 0 THEN "Cooling"
                                      ELSE IF @ \in {"Cooling", "Expired"} THEN "Active"
                                      ELSE @],
        actual |-> actual]

update_quota(t, new_quota) ==
    LET quota == Max(new_quota, 0)
    IN [t EXCEPT !.quota = quota,
                 !.status = IF quota = 0 THEN "Cooling"
                            ELSE IF @ \in {"Cooling", "Expired"} THEN "Active"
                            ELSE @]

record_success_AlwaysActive(t, is_usage) ==
    [t EXCEPT !.fail_count = 0,
              !.last_fail_at = "None",
              !.last_fail_reason = "None",
              !.use_count = IF is_usage THEN @ + 1 ELSE @,
              !.last_used_at = IF is_usage THEN "Some" ELSE @,
              !.status = "Active"]

\* TokenInfo::record_success
record_success(t, is_usage) ==
    [t EXCEPT !.fail_count = 0,
              !.last_fail_at = "None",
              !.last_fail_reason = "None",
              !.use_count = IF is_usage THEN @ + 1 ELSE @,
              !.last_used_at = IF is_usage THEN "Some" ELSE @,
              !.status = IF t.quota = 0 THEN "Cooling" ELSE "Active"]

\* reset that keeps the failure count
reset_KeepFailCount(t) ==
    [t EXCEPT !.quota = DEFAULT_QUOTA,
              !.status = "Active",
              !.last_fail_reason = "None"]

\* record_fail that expires the credential one failure late
record_fail_Late(t, status_code) ==
    IF status_code # 401 THEN t
    ELSE [t EXCEPT !.fail_count = @ + 1,
                   !.last_fail_at = "Some",
                   !.last_fail_reason = "Some",
                   !.status = IF t.fail_count + 1 > FAIL_THRESHOLD THEN "Expired" ELSE @]

\* record_fail that counts every status code
record_fail_AnyCode(t, status_code) ==
    [t EXCEPT !.fail_count = @ + 1,
              !.last_fail_at = "Some",
              !.last_fail_reason = "Some",
              !.status = IF t.fail_count + 1 >= FAIL_THRESHOLD THEN "Expired" ELSE @]

\* TokenInfo::reset
reset(t) ==
    [t EXCEPT !.quota = DEFAULT_QUOTA,
              !.status = "Active",
              !.fail_count = 0,
              !.last_fail_reason = "None"]

\* TokenInfo::record_fail
record_fail(t, status_code) ==
    IF status_code # 401 THEN t
    ELSE [t EXCEPT !.fail_count = @ + 1,
                   !.last_fail_at = "Some",
                   !.last_fail_reason = "Some",
                   !.status = IF t.fail_count + 1 >= FAIL_THRESHOLD THEN "Expired" ELSE @]

\* TokenInfo::need_refresh; `due` says that the refresh interval has elapsed
\* since last_sync_at
need_refresh(t, due) ==
    IF t.status # "Cooling" THEN FALSE
    ELSE IF t.last_sync_at = "None" THEN TRUE
    ELSE due

\* TokenInfo::mark_synced
mark_synced(t) == [t EXCEPT !.last_sync_at = "Some"]

----------------------------------------------------------------------------
(* TokenPool: services/token/pool.rs                                       *)

\* Vec position of the first credential whose token equals the string, 0 if none
Find(tokens, str) ==
    IF \E i \in 1..Len(tokens) : tokens[i].token = str
    THEN CHOOSE i \in 1..Len(tokens) :
             tokens[i].token = str /\ \A j \in 1..(i - 1) : tokens[j].token # str
    ELSE 0

RECURSIVE MaxQuota(_)
\* available.iter().map(|t| t.quota).max().unwrap_or(0)
MaxQuota(tokens) ==
    IF tokens = <<>> THEN 0
    ELSE IF Len(tokens) = 1 THEN tokens[1].quota
    ELSE Max(tokens[1].quota, MaxQuota(Tail(tokens)))

\* select that picks among all available credentials, whatever their quota
select_AnyAvailable(tokens) ==
    {t \in {tokens[i] : i \in 1..Len(tokens)} : is_available(t)}

\* TokenPool::select: the credentials `choose` may return (empty: None)
select(tokens) ==
    LET available == SelectSeq(tokens, LAMBDA t : t.status = "Active" /\ t.quota > 0)
        max_quota == MaxQuota(available)
        retained == SelectSeq(available, LAMBDA t : t.quota = max_quota)
    IN {retained[i] : i \in 1..Len(retained)}

----------------------------------------------------------------------------
(* TokenManager and TokenService: services/token/manager.rs, service.rs    *)

PoolNames == {"ssoBasic", "ssoSuper"}
Requests == {"r1", "r2"}
Efforts == {"Low", "High"}
\* quota values found in a stored token document
QuotaInputs == {-1, 0, 2, 5}
\* remainingTokens values the quota query may report: -3, 3 and 2^31 + 1
RemainInputs == {I64(0, -3), I64(0, 3), I64(1, -2147483647)}
\* what UsageService::get returned: an error, a reply without an integer
\* remainingTokens, or a reply that carries one
Answers == {[kind |-> "Err", remain |-> I64(0, 0)], [kind |-> "NoNumber", remain |-> I64(0, 0)]}
               \cup {[kind |-> "Some", remain |-> x] : x \in RemainInputs}

PoolTokens(pools, name) == IF name \in DOMAIN pools THEN pools[name] ELSE <<>>

\* token_from_value for the entries of one stored list: entries with an empty
\* token are skipped, the token is stored without its "sso=" prefixes
token_from_value(v) == [v EXCEPT !.token = trim_sso(@)]
ParsePools(doc) ==
    [name \in DOMAIN doc |->
        LET kept == SelectSeq(doc[name], LAMBDA v : v.token # Str(0, ""))
        IN [i \in 1..Len(kept) |-> token_from_value(kept[i])]]

\* load that keeps the pools it has when the read fails
load_KeepOnError(m, doc, read_ok) ==
    IF m.initialized THEN m
    ELSE [pools |-> IF read_ok THEN ParsePools(doc) ELSE m.pools, initialized |-> TRUE]

\* load: nothing once initialized; otherwise the pools of the stored document,
\* or no pool at all when the read fails
load(m, doc, read_ok) ==
    IF m.initialized THEN m
    ELSE [pools |-> IF read_ok THEN ParsePools(doc) ELSE <<>>, initialized |-> TRUE]

reload(m, doc, read_ok) == load([m EXCEPT !.initialized = FALSE], doc, read_ok)

\* reload_if_stale: `stale` says that the reload interval has elapsed
reload_if_stale(m, doc, stale, read_ok) ==
    IF stale THEN reload(m, doc, read_ok) ELSE m

\* save: the whole pool set replaces the stored document unless the write fails
save(m, st, save_ok) == IF save_ok THEN [st EXCEPT !.doc = m.pools] ELSE st

\* the pool that holds the token, "None" if no pool does
PoolOf(pools, str) ==
    IF \E name \in DOMAIN pools : Find(pools[name], str) # 0
    THEN CHOOSE name \in DOMAIN pools : Find(pools[name], str) # 0
    ELSE "None"

Credential(pools, str) ==
    LET name == PoolOf(pools, str) IN pools[name][Find(pools[name], str)]

SetCredential(m, str, info) ==
    LET name == PoolOf(m.pools, str)
    IN [m EXCEPT !.pools[name][Find(m.pools[name], str)] = info]

\* some pool holds different credentials in the two pool maps
CredentialsDiffer(pools1, pools2) ==
    \E name \in PoolNames : PoolTokens(pools1, name) # PoolTokens(pools2, name)

NoLast == [op |-> "none", token |-> NoneStr, pool |-> "None", ret |-> NoneStr,
           found |-> FALSE, actual |-> 0, effort |-> "Low",
           quota0 |-> 0, use0 |-> 0, reloaded |-> FALSE, changed |-> FALSE]

\* first use of the manager: get_token_manager() constructs it and loads
get_token_manager(read_ok) ==
    /\ ~mgr.initialized
    /\ mgr' = load(mgr, storage.doc, read_ok)
    /\ UNCHANGED <<batchVars, extraVars, storage, req, refresh, last>>

\* TokenService::get_token_for_model: reload_if_stale, then get_token(pool),
\* which returns the selected token without its "sso=" prefixes
get_token_for_model(r, pool, stale, read_ok) ==
    /\ mgr.initialized
    /\ req[r].pc = "start"
    /\ LET m1 == reload_if_stale(mgr, storage.doc, stale, read_ok)
           options == select(PoolTokens(m1.pools, pool))
       IN /\ mgr' = m1
          /\ \E ret \in IF options = {} THEN {NoneStr}
                        ELSE {trim_sso(t.token) : t \in options} :
               /\ req' = [req EXCEPT ![r] = IF ret = NoneStr
                                            THEN [pc |-> "rate_limited", token |-> NoneStr]
                                            ELSE [pc |-> "holding", token |-> ret]]
               /\ last' = [NoLast EXCEPT !.op = "get_token_for_model", !.pool = pool,
                                         !.ret = ret, !.reloaded = stale,
                                         !.changed = CredentialsDiffer(mgr.pools, m1.pools)]
    /\ UNCHANGED <<batchVars, extraVars, storage, refresh>>

\* TokenManager::consume: the first pool holding the trimmed token is charged
manager_consume(m, st, str, effort, save_ok) ==
    LET raw == trim_sso(str)
    IN IF PoolOf(m.pools, raw) = "None"
       THEN [mgr |-> m, storage |-> st, ret |-> FALSE, actual |-> 0]
       ELSE LET c == consume(Credential(m.pools, raw), effort)
                m1 == SetCredential(m, raw, c.info)
            IN [mgr |-> m1, storage |-> save(m1, st, save_ok), ret |-> TRUE,
                actual |-> c.actual]

\* TokenService::consume by the request that holds a token
service_consume(r, effort, save_ok) ==
    /\ mgr.initialized
    /\ req[r].pc = "holding"
    /\ LET out == manager_consume(mgr, storage, req[r].token, effort, save_ok)
           raw == trim_sso(req[r].token)
       IN /\ mgr' = out.mgr
          /\ storage' = out.storage
          /\ last' = [NoLast EXCEPT
                        !.op = "consume", !.token = raw, !.found = out.ret,
                        !.actual = out.actual, !.effort = effort,
                        !.quota0 = IF out.ret THEN Credential(mgr.pools, raw).quota ELSE 0,
                        !.use0 = IF out.ret THEN Credential(mgr.pools, raw).use_count ELSE 0]
    /\ req' = [req EXCEPT ![r].pc = "done"]
    /\ UNCHANGED <<batchVars, extraVars, refresh>>

\* TokenManager::sync_usage. `answer` is what the quota query returned
manager_sync_usage(m, st, str, answer, fallback_effort, consume_on_fail, is_usage, save_ok) ==
    LET raw == trim_sso(str)
    IN IF PoolOf(m.pools, raw) = "None"
       THEN [mgr |-> m, storage |-> st, ret |-> FALSE]
       ELSE IF answer.kind = "Some"
       THEN LET t1 == update_quota(Credential(m.pools, raw), as_i32(answer.remain))
                t2 == record_success(t1, is_usage)
                m1 == SetCredential(m, raw, t2)
            IN [mgr |-> m1, storage |-> save(m1, st, save_ok), ret |-> TRUE]
       ELSE IF consume_on_fail
       THEN LET out == manager_consume(m, st, str, fallback_effort, save_ok)
            IN [mgr |-> out.mgr, storage |-> out.storage, ret |-> out.ret]
       ELSE [mgr |-> m, storage |-> st, ret |-> FALSE]

\* refresh_tokens_api: sync_usage(token, "grok-3", Low, false, false)
sync_usage(answer, save_ok) ==
    /\ mgr.initialized
    /\ refresh # <<>>
    /\ refresh' = Tail(refresh)
    /\ LET str == Head(refresh)
           out == manager_sync_usage(mgr, storage, str, answer, "Low", FALSE, FALSE, save_ok)
       IN /\ mgr' = out.mgr
          /\ storage' = out.storage
          /\ last' = [NoLast EXCEPT !.op = "sync_usage", !.token = trim_sso(str),
                                    !.found = out.ret]
    /\ UNCHANGED <<batchVars, extraVars, req>>

\* the request gives up after its upstream call failed: nothing is consumed
upstream_failed(r) ==
    /\ req[r].pc = "holding"
    /\ req' = [req EXCEPT ![r].pc = "done"]
    /\ UNCHANGED <<batchVars, extraVars, mgr, storage, refresh, last>>

\* stored token entries: the token may carry an "sso=" prefix in the document
DocTokens == {Str(1, "x"), Str(0, "y")}
DocStatuses == {"Active", "Cooling"}
DocEntries ==
    {[TokenInfo_new(tok) EXCEPT !.status = st, !.quota = q] :
        tok \in DocTokens, st \in DocStatuses, q \in QuotaInputs}
DocLists == {<<>>} \cup {<<e>> : e \in DocEntries}
                  \cup {<<e1, e2>> : e1 \in DocEntries, e2 \in DocEntries}
\* token documents: the basic pool only (the super pool does not exist)
Docs == {[name \in {"ssoBasic"} |-> l] : l \in DocLists}

\* token lists handed to refresh_tokens_api
RefreshLists == {<<tok>> : tok \in DocTokens}

\* parked batch subsystem (the credential specification does not move it)
ParkedBatch ==
    /\ job = Job("none", <<>>, 1, 1, FALSE, FALSE, "none")
    /\ permits = 1
    /\ task = BatchTask_new(0)
    /\ TASKS = {}
    /\ chan = [c \in Clients |-> NoChannel]
    /\ stream = [c \in Clients |-> IdleStream]
    /\ worker = [i \in 1..MaxItems |-> "idle"]
    /\ expire = "none"
    /\ cancelEnv = FALSE
    /\ hist = NoHist

\* process start: TokenManager::new(), a token document on disk, no request yet
InitCred ==
    /\ mgr = [pools |-> <<>>, initialized |-> FALSE]
    /\ storage \in {[doc |-> d] : d \in Docs}
    /\ req = [r \in Requests |-> [pc |-> "start", token |-> NoneStr]]
    /\ refresh \in RefreshLists
    /\ last = NoLast
    /\ ParkedExtra
    /\ ParkedBatch

NextCred ==
    \/ \E read_ok \in BOOLEAN : get_token_manager(read_ok)
    \/ \E r \in Requests, pool \in PoolNames, stale \in BOOLEAN, read_ok \in BOOLEAN :
           get_token_for_model(r, pool, stale, read_ok)
    \/ \E r \in Requests, effort \in Efforts, save_ok \in BOOLEAN :
           service_consume(r, effort, save_ok)
    \/ \E r \in Requests : upstream_failed(r)
    \/ \E answer \in Answers, save_ok \in BOOLEAN : sync_usage(answer, save_ok)

\* the credential manager under concurrent API requests and quota refreshes
SpecCred == InitCred /\ [][NextCred]_vars

----------------------------------------------------------------------------
(* One TokenInfo object called through its public methods in any order     *)

StatusCodes == {401, 429, 500}
\* quota values handed to update_quota
NewQuotaInputs == {-1, 0, 1, 5}

Called(op, arg, info) == [op |-> op, arg |-> arg, prev |-> cred.info, info |-> info]

InitToken ==
    /\ cred = [op |-> "new", arg |-> 0, prev |-> TokenInfo_new(Str(0, "x")),
               info |-> TokenInfo_new(Str(0, "x"))]
    /\ mgr = [pools |-> <<>>, initialized |-> FALSE]
    /\ storage = [doc |-> <<>>]
    /\ req = <<>>
    /\ refresh = <<>>
    /\ last = [op |-> "none"]
    /\ ParkedLock
    /\ ParkedStore
    /\ ParkedBatch

\* what a TokenInfo method call leaves alone
tokenFrame == <<batchVars, mgr, storage, req, refresh, last, lockVars, storeVars>>

TokenConsume(effort) ==
    /\ cred.info.use_count < MaxUseCount
    /\ cred' = Called("consume", effort, consume(cred.info, effort).info)
    /\ UNCHANGED tokenFrame

TokenUpdateQuota(new_quota) ==
    /\ cred' = Called("update_quota", new_quota, update_quota(cred.info, new_quota))
    /\ UNCHANGED tokenFrame

TokenRecordSuccess(is_usage) ==
    /\ is_usage => cred.info.use_count < MaxUseCount
    /\ cred' = Called("record_success", is_usage, record_success(cred.info, is_usage))
    /\ UNCHANGED tokenFrame

TokenRecordFail(status_code) ==
    /\ cred.info.fail_count < MaxFailCount
    /\ cred' = Called("record_fail", status_code, record_fail(cred.info, status_code))
    /\ UNCHANGED tokenFrame

TokenReset ==
    /\ cred' = Called("reset", 0, reset(cred.info))
    /\ UNCHANGED tokenFrame

NextToken ==
    \/ \E effort \in Efforts : TokenConsume(effort)
    \/ \E new_quota \in NewQuotaInputs : TokenUpdateQuota(new_quota)
    \/ \E is_usage \in BOOLEAN : TokenRecordSuccess(is_usage)
    \/ \E status_code \in StatusCodes : TokenRecordFail(status_code)
    \/ TokenReset

\* a credential made by TokenInfo::new and mutated by its methods
SpecToken == InitToken /\ [][NextToken]_vars

----------------------------------------------------------------------------
(* The TokenManager mutex: who holds it while a quota query is awaited     *)
(* (api/v1/admin.rs refresh workers, services/token/scheduler.rs,          *)
(*  services/token/service.rs)                                             *)

Tasks == {"refresh", "scheduler", "caller"}

\* what the mutex tasks leave alone
lockFrame == <<batchVars, req, refresh, last, cred, storeVars>>

\* all tokens held by the pools, pool by pool
RECURSIVE PoolTokenList(_, _)
PoolTokenList(pools, names) ==
    IF names = {} THEN <<>>
    ELSE LET name == CHOOSE n \in names : TRUE
         IN [i \in 1..Len(pools[name]) |-> pools[name][i]]
                \o PoolTokenList(pools, names \ {name})

\* the manager is loaded, nobody holds its mutex
InitLock ==
    /\ \E d \in Docs :
        /\ storage = [doc |-> d]
        /\ mgr = load([pools |-> <<>>, initialized |-> FALSE], d, TRUE)
    /\ lock = "free"
    /\ proc = [refresh |-> [pc |-> "idle", token |-> NoneStr],
               scheduler |-> [pc |-> "sleep", to_refresh |-> <<>>],
               caller |-> [pc |-> "idle"]]
    /\ req = <<>>
    /\ refresh = <<>>
    /\ last = [op |-> "none"]
    /\ cred = [op |-> "none"]
    /\ ParkedStore
    /\ ParkedBatch

\* refresh worker: mgr.lock().await, then sync_usage up to its quota query; a
\* token that no pool holds makes sync_usage return before any query
RefreshLock(str) ==
    /\ lock = "free"
    /\ proc.refresh.pc = "idle"
    /\ IF PoolOf(mgr.pools, trim_sso(str)) = "None"
       THEN UNCHANGED <<lock, proc>>
       ELSE /\ lock' = "refresh"
            /\ proc' = [proc EXCEPT !.refresh = [pc |-> "querying", token |-> str]]
    /\ UNCHANGED <<lockFrame, mgr, storage>>

\* the quota query returns inside sync_usage: the answer is applied, the
\* handler's guard is dropped
RefreshApply(answer, save_ok) ==
    /\ lock = "refresh"
    /\ proc.refresh.pc = "querying"
    /\ LET out == manager_sync_usage(mgr, storage, proc.refresh.token, answer,
                                     "Low", FALSE, FALSE, save_ok)
       IN /\ mgr' = out.mgr
          /\ storage' = out.storage
    /\ lock' = "free"
    /\ proc' = [proc EXCEPT !.refresh = [pc |-> "idle", token |-> NoneStr]]
    /\ UNCHANGED lockFrame

\* scheduler loop after its sleep: mgr.lock().await, refresh_cooling_tokens
\* collects the tokens to refresh and returns at once when there is none
SchedLock(due) ==
    /\ lock = "free"
    /\ proc.scheduler.pc = "sleep"
    /\ LET all == PoolTokenList(mgr.pools, DOMAIN mgr.pools)
           picked == SelectSeq(all, LAMBDA t : need_refresh(t, due))
           to_refresh == [i \in 1..Len(picked) |-> picked[i].token]
       IN IF to_refresh = <<>>
          THEN UNCHANGED <<lock, proc>>
          ELSE /\ lock' = "scheduler"
               /\ proc' = [proc EXCEPT !.scheduler = [pc |-> "querying",
                                                      to_refresh |-> to_refresh]]
    /\ UNCHANGED <<lockFrame, mgr, storage>>

\* one quota query of refresh_cooling_tokens returns: a reported number
\* overwrites the quota, an error expires the credential; after the last token
\* the pools are saved and the guard is dropped
SchedApply(answer, save_ok) ==
    /\ lock = "scheduler"
    /\ proc.scheduler.pc = "querying"
    /\ LET token_str == Head(proc.scheduler.to_refresh)
           rest == Tail(proc.scheduler.to_refresh)
           tok == Credential(mgr.pools, token_str)
           m1 == IF answer.kind = "Some"
                 THEN SetCredential(mgr, token_str,
                          mark_synced(update_quota(tok, as_i32(answer.remain))))
                 ELSE IF answer.kind = "Err"
                 THEN SetCredential(mgr, token_str,
                          mark_synced([tok EXCEPT !.status = "Expired"]))
                 ELSE mgr
       IN /\ mgr' = m1
          /\ IF rest = <<>>
             THEN /\ storage' = save(m1, storage, save_ok)
                  /\ lock' = "free"
                  /\ proc' = [proc EXCEPT !.scheduler = [pc |-> "sleep", to_refresh |-> <<>>]]
             ELSE /\ storage' = storage
                  /\ lock' = lock
                  /\ proc' = [proc EXCEPT !.scheduler.to_refresh = rest]
    /\ UNCHANGED lockFrame

\* a request takes the mutex in get_token_for_model
CallerLock ==
    /\ lock = "free"
    /\ proc.caller.pc = "idle"
    /\ lock' = "caller"
    /\ proc' = [proc EXCEPT !.caller.pc = "locked"]
    /\ UNCHANGED <<lockFrame, mgr, storage>>

\* reload_if_stale and get_token under the mutex, then the guard is dropped
CallerGetToken(stale, read_ok) ==
    /\ lock = "caller"
    /\ proc.caller.pc = "locked"
    /\ mgr' = reload_if_stale(mgr, storage.doc, stale, read_ok)
    /\ lock' = "free"
    /\ proc' = [proc EXCEPT !.caller.pc = "idle"]
    /\ UNCHANGED <<lockFrame, storage>>

NextLock ==
    \/ \E str \in DocTokens : RefreshLock(str)
    \/ \E answer \in Answers, save_ok \in BOOLEAN : RefreshApply(answer, save_ok)
    \/ \E due \in BOOLEAN : SchedLock(due)
    \/ \E answer \in Answers, save_ok \in BOOLEAN : SchedApply(answer, save_ok)
    \/ CallerLock
    \/ \E stale \in BOOLEAN, read_ok \in BOOLEAN : CallerGetToken(stale, read_ok)

\* the tasks that share the TokenManager mutex
SpecLock == InitLock /\ [][NextLock]_vars

----------------------------------------------------------------------------
(* The operations of TokenManager called one after another                 *)
(* (services/token/manager.rs)                                             *)

\* TokenManager::record_fail
manager_record_fail(m, st, str, status_code, save_ok) ==
    LET raw == trim_sso(str)
    IN IF PoolOf(m.pools, raw) = "None"
       THEN [mgr |-> m, storage |-> st, ret |-> FALSE, saved |-> FALSE]
       ELSE LET m1 == SetCredential(m, raw, record_fail(Credential(m.pools, raw), status_code))
            IN [mgr |-> m1, storage |-> save(m1, st, save_ok), ret |-> TRUE, saved |-> TRUE]

\* TokenManager::add: the pool is created when missing; a token the pool
\* already holds is refused, any other string is pushed as a new credential
manager_add(m, st, str, pool_name, save_ok) ==
    LET raw == trim_sso(str)
        m0 == [m EXCEPT !.pools = IF pool_name \in DOMAIN m.pools THEN m.pools
                                  ELSE [n \in DOMAIN m.pools \cup {pool_name} |->
                                           IF n = pool_name THEN <<>> ELSE m.pools[n]]]
    IN IF Find(m0.pools[pool_name], raw) # 0
       THEN [mgr |-> m0, storage |-> st, ret |-> FALSE, saved |-> FALSE]
       ELSE LET m1 == [m0 EXCEPT !.pools[pool_name] = Append(@, TokenInfo_new(raw))]
            IN [mgr |-> m1, storage |-> save(m1, st, save_ok), ret |-> TRUE, saved |-> TRUE]

\* TokenManager::remove: the string is compared as given; the pool that holds
\* it loses every credential with that token
manager_remove(m, st, str, save_ok) ==
    IF PoolOf(m.pools, str) = "None"
    THEN [mgr |-> m, storage |-> st, ret |-> FALSE, saved |-> FALSE]
    ELSE LET name == PoolOf(m.pools, str)
             m1 == [m EXCEPT !.pools[name] = SelectSeq(@, LAMBDA t : t.token # str)]
         IN [mgr |-> m1, storage |-> save(m1, st, save_ok), ret |-> TRUE, saved |-> TRUE]

\* the loop of reset_all over one pool: for every listed token the first
\* credential with that token is reset
RECURSIVE ResetListed(_, _)
ResetListed(tokens, listed) ==
    IF listed = <<>> THEN tokens
    ELSE LET i == Find(tokens, Head(listed).token)
         IN ResetListed([tokens EXCEPT ![i] = reset(tokens[i])], Tail(listed))

\* TokenManager::reset_all
manager_reset_all(m, st, save_ok) ==
    LET m1 == [m EXCEPT !.pools = [n \in DOMAIN m.pools |->
                                      ResetListed(m.pools[n], m.pools[n])]]
    IN [mgr |-> m1, storage |-> save(m1, st, save_ok), ret |-> TRUE, saved |-> TRUE]

\* TokenManager::reset_token
manager_reset_token(m, st, str, save_ok) ==
    LET raw == trim_sso(str)
    IN IF PoolOf(m.pools, raw) = "None"
       THEN [mgr |-> m, storage |-> st, ret |-> FALSE, saved |-> FALSE]
       ELSE LET m1 == SetCredential(m, raw, reset(Credential(m.pools, raw)))
            IN [mgr |-> m1, storage |-> save(m1, st, save_ok), ret |-> TRUE, saved |-> TRUE]

\* TokenManager::add_tag: saved only when the tag is new
manager_add_tag(m, st, str, tag, save_ok) ==
    LET raw == trim_sso(str)
    IN IF PoolOf(m.pools, raw) = "None"
       THEN [mgr |-> m, storage |-> st, ret |-> FALSE, saved |-> FALSE]
       ELSE LET tok == Credential(m.pools, raw)
            IN IF tag \in tok.tags
               THEN [mgr |-> m, storage |-> st, ret |-> TRUE, saved |-> FALSE]
               ELSE LET m1 == SetCredential(m, raw, [tok EXCEPT !.tags = @ \cup {tag}])
                    IN [mgr |-> m1, storage |-> save(m1, st, save_ok), ret |-> TRUE,
                        saved |-> TRUE]

\* TokenManager::mark_asset_clear
manager_mark_asset_clear(m, st, str, save_ok) ==
    LET raw == trim_sso(str)
    IN IF PoolOf(m.pools, raw) = "None"
       THEN [mgr |-> m, storage |-> st, ret |-> FALSE, saved |-> FALSE]
       ELSE LET m1 == SetCredential(m, raw, [Credential(m.pools, raw) EXCEPT
                                                !.last_asset_clear_at = "Some"])
            IN [mgr |-> m1, storage |-> save(m1, st, save_ok), ret |-> TRUE, saved |-> TRUE]

\* the tokens refresh_cooling_tokens collects
ToRefresh(m, due) ==
    LET all == PoolTokenList(m.pools, DOMAIN m.pools)
        picked == SelectSeq(all, LAMBDA t : need_refresh(t, due))
    IN [i \in 1..Len(picked) |-> picked[i].token]

\* the query loop of refresh_cooling_tokens: answers[i] is what the i-th query returned
RECURSIVE RefreshLoop(_, _, _)
RefreshLoop(m, to_refresh, answers) ==
    IF to_refresh = <<>> THEN m
    ELSE LET token_str == Head(to_refresh)
             answer == Head(answers)
             tok == Credential(m.pools, token_str)
             m1 == IF answer.kind = "Some"
                   THEN SetCredential(m, token_str,
                            mark_synced(update_quota(tok, as_i32(answer.remain))))
                   ELSE IF answer.kind = "Err"
                   THEN SetCredential(m, token_str,
                            mark_synced([tok EXCEPT !.status = "Expired"]))
                   ELSE m
         IN RefreshLoop(m1, Tail(to_refresh), Tail(answers))

\* TokenManager::refresh_cooling_tokens: nothing is saved when no token is due
manager_refresh_cooling_tokens(m, st, due, answers, save_ok) ==
    LET to_refresh == ToRefresh(m, due)
    IN IF to_refresh = <<>>
       THEN [mgr |-> m, storage |-> st, ret |-> FALSE, saved |-> FALSE]
       ELSE LET m1 == RefreshLoop(m, to_refresh, answers)
            IN [mgr |-> m1, storage |-> save(m1, st, save_ok), ret |-> TRUE, saved |-> TRUE]

\* strings handed to the operations that look a token up
ArgTokens == {Str(1, "x"), Str(0, "y")}
\* strings handed to add: a token, and "sso=" alone
AddTokens == {Str(0, "y"), Str(1, "")}
\* credentials of the stored document the manager starts from
MgrEntries ==
    {[TokenInfo_new(Str(1, "x")) EXCEPT !.status = "Cooling", !.quota = 0],
     [TokenInfo_new(Str(1, "x")) EXCEPT !.status = "Cooling", !.quota = 5],
     [TokenInfo_new(Str(1, "x")) EXCEPT !.status = "Active", !.quota = 2],
     [TokenInfo_new(Str(0, "y")) EXCEPT !.status = "Disabled", !.quota = 1]}
MgrDocs ==
    {[name \in {"ssoBasic"} |-> l] :
        l \in {<<>>} \cup {<<e>> : e \in MgrEntries}
                     \cup {<<e1, e2>> : e1 \in MgrEntries, e2 \in MgrEntries}}

\* what the manager operations leave alone
mgrFrame == <<batchVars, req, refresh, extraVars>>

\* the operation just called: its name, the string it was given, what it
\* returned, whether it called save and whether that write succeeded, and the
\* number of operations called so far
Op(name, str, out, save_ok) ==
    [op |-> name, token |-> str, ret |-> out.ret, saved |-> out.saved,
     save_ok |-> save_ok, n |-> last.n + 1]

\* get_token_manager has constructed the manager and called load, whose read
\* of the stored document succeeded or failed
InitMgr ==
    /\ \E d \in MgrDocs, read_ok \in BOOLEAN :
        /\ storage = [doc |-> d]
        /\ mgr = load([pools |-> <<>>, initialized |-> FALSE], d, read_ok)
        /\ last = [op |-> "load", token |-> NoneStr, ret |-> read_ok, saved |-> FALSE,
                   save_ok |-> FALSE, n |-> 0]
    /\ req = <<>>
    /\ refresh = <<>>
    /\ ParkedExtra
    /\ ParkedBatch

Apply(name, str, out, save_ok) ==
    /\ last.n < MaxOps
    /\ mgr' = out.mgr
    /\ storage' = out.storage
    /\ last' = Op(name, str, out, save_ok)
    /\ UNCHANGED mgrFrame

MgrConsume(str, effort, save_ok) ==
    LET out == manager_consume(mgr, storage, str, effort, save_ok)
    IN Apply("consume", str, [out EXCEPT !.actual = 0] @@ [saved |-> out.ret], save_ok)

MgrSyncUsage(str, answer, consume_on_fail, save_ok) ==
    LET out == manager_sync_usage(mgr, storage, str, answer, "Low", consume_on_fail,
                                  FALSE, save_ok)
    IN Apply("sync_usage", str, out @@ [saved |-> out.ret], save_ok)

MgrRecordFail(str, status_code, save_ok) ==
    Apply("record_fail", str, manager_record_fail(mgr, storage, str, status_code, save_ok),
          save_ok)

MgrAdd(str, save_ok) ==
    Apply("add", str, manager_add(mgr, storage, str, "ssoBasic", save_ok), save_ok)

MgrRemove(str, save_ok) ==
    Apply("remove", str, manager_remove(mgr, storage, str, save_ok), save_ok)

MgrResetAll(save_ok) ==
    Apply("reset_all", NoneStr, manager_reset_all(mgr, storage, save_ok), save_ok)

MgrResetToken(str, save_ok) ==
    Apply("reset_token", str, manager_reset_token(mgr, storage, str, save_ok), save_ok)

MgrAddTag(str, save_ok) ==
    Apply("add_tag", str, manager_add_tag(mgr, storage, str, "nsfw", save_ok), save_ok)

MgrMarkAssetClear(str, save_ok) ==
    Apply("mark_asset_clear", str, manager_mark_asset_clear(mgr, storage, str, save_ok),
          save_ok)

MgrRefreshCooling(due, save_ok) ==
    \E answers \in [1..Len(ToRefresh(mgr, due)) -> Answers] :
        Apply("refresh_cooling_tokens", NoneStr,
              manager_refresh_cooling_tokens(mgr, storage, due, answers, save_ok), save_ok)

\* reload_if_stale once the reload interval has elapsed
MgrReload(read_ok) ==
    /\ last.n < MaxOps
    /\ mgr' = reload(mgr, storage.doc, read_ok)
    /\ last' = [op |-> "reload", token |-> NoneStr, ret |-> read_ok, saved |-> FALSE,
                save_ok |-> FALSE, n |-> last.n + 1]
    /\ UNCHANGED <<mgrFrame, storage>>

\* a later get_token_manager call: load on the manager that is initialized
MgrLoad(read_ok) ==
    /\ last.n < MaxOps
    /\ mgr' = load(mgr, storage.doc, read_ok)
    /\ last' = [op |-> "load", token |-> NoneStr, ret |-> read_ok, saved |-> FALSE,
                save_ok |-> FALSE, n |-> last.n + 1]
    /\ UNCHANGED <<mgrFrame, storage>>

NextMgr ==
    \/ \E str \in ArgTokens, effort \in Efforts, save_ok \in BOOLEAN :
           MgrConsume(str, effort, save_ok)
    \/ \E str \in ArgTokens, answer \in Answers, consume_on_fail \in BOOLEAN,
          save_ok \in BOOLEAN : MgrSyncUsage(str, answer, consume_on_fail, save_ok)
    \/ \E str \in ArgTokens, status_code \in StatusCodes, save_ok \in BOOLEAN :
           MgrRecordFail(str, status_code, save_ok)
    \/ \E str \in AddTokens, save_ok \in BOOLEAN : MgrAdd(str, save_ok)
    \/ \E str \in ArgTokens, save_ok \in BOOLEAN : MgrRemove(str, save_ok)
    \/ \E save_ok \in BOOLEAN : MgrResetAll(save_ok)
    \/ \E str \in ArgTokens, save_ok \in BOOLEAN : MgrResetToken(str, save_ok)
    \/ \E str \in ArgTokens, save_ok \in BOOLEAN : MgrAddTag(str, save_ok)
    \/ \E str \in ArgTokens, save_ok \in BOOLEAN : MgrMarkAssetClear(str, save_ok)
    \/ \E due \in BOOLEAN, save_ok \in BOOLEAN : MgrRefreshCooling(due, save_ok)
    \/ \E read_ok \in BOOLEAN : MgrReload(read_ok)
    \/ \E read_ok \in BOOLEAN : MgrLoad(read_ok)

\* the TokenManager under a sequence of calls of its operations
SpecMgr == InitMgr /\ [][NextMgr]_vars

----------------------------------------------------------------------------
(* update_tokens_api next to requests that consume: api/v1/admin.rs:150-165 *)

\* the request that runs update_tokens_api
Updater == "u1"
\* the document it submits
SubmittedDoc ==
    [name \in {"ssoBasic"} |->
        <<[TokenInfo_new(Str(1, "x")) EXCEPT !.quota = 5],
          [TokenInfo_new(Str(0, "z")) EXCEPT !.quota = 2]>>]

\* the manager is loaded, two API requests and one update request start
InitUpd ==
    /\ \E d \in MgrDocs :
        /\ storage = [doc |-> d]
        /\ mgr = load([pools |-> <<>>, initialized |-> FALSE], d, TRUE)
    /\ req = [r \in Requests \cup {Updater} |-> [pc |-> "start", token |-> NoneStr]]
    /\ refresh = <<>>
    /\ last = NoLast
    /\ ParkedExtra
    /\ ParkedBatch

\* storage.with_lock("tokens_save", 10, || storage.save_tokens(&data)): the
\* submitted document replaces the stored one; a failed write ends the request
\* with the error
UpdateWrite(save_ok) ==
    /\ req[Updater].pc = "start"
    /\ storage' = IF save_ok THEN [storage EXCEPT !.doc = SubmittedDoc] ELSE storage
    /\ req' = [req EXCEPT ![Updater].pc = IF save_ok THEN "written" ELSE "failed"]
    /\ last' = [NoLast EXCEPT !.op = "update_write", !.found = save_ok]
    /\ UNCHANGED <<batchVars, extraVars, mgr, refresh>>

\* mgr.lock().await.reload().await, then the success reply
UpdateReload(read_ok) ==
    /\ req[Updater].pc = "written"
    /\ mgr' = reload(mgr, storage.doc, read_ok)
    /\ req' = [req EXCEPT ![Updater].pc = "done"]
    /\ last' = [NoLast EXCEPT !.op = "update_reload", !.found = read_ok]
    /\ UNCHANGED <<batchVars, extraVars, storage, refresh>>

NextUpd ==
    \/ \E r \in Requests, pool \in PoolNames, stale \in BOOLEAN, read_ok \in BOOLEAN :
           get_token_for_model(r, pool, stale, read_ok)
    \/ \E r \in Requests, effort \in Efforts, save_ok \in BOOLEAN :
           service_consume(r, effort, save_ok)
    \/ \E r \in Requests : upstream_failed(r)
    \/ \E save_ok \in BOOLEAN : UpdateWrite(save_ok)
    \/ \E read_ok \in BOOLEAN : UpdateReload(read_ok)

\* an external token-set update concurrent with requests that take and
\* consume tokens
SpecUpd == InitUpd /\ [][NextUpd]_vars

----------------------------------------------------------------------------
(* The Scored Rotation Store: services/grok/imagine_nsfw.rs                *)

RESET_INTERVAL_SECS == 86400
\* the rolling reset interval in minutes, the unit of `now`
ResetIntervalMin == RESET_INTERVAL_SECS \div 60

SsoNames == {"x", "y"}

\* KeyUsage::default (first_used, which nothing reads, is left out)
KeyUsage_default == [count |-> 0, last_used |-> 0, failed |-> FALSE, age_verified |-> 0]
\* RotationStateData::default
RotationStateData_default == [last_reset |-> 0, usage |-> <<>>]

\* key_hash is taken to map different tokens to different keys
get_usage(state, token) ==
    IF token \in DOMAIN state.usage THEN state.usage[token] ELSE KeyUsage_default

ensure_usage(state, token) ==
    IF token \in DOMAIN state.usage THEN state
    ELSE [state EXCEPT !.usage = [t \in DOMAIN state.usage \cup {token} |->
                                     IF t = token THEN KeyUsage_default ELSE state.usage[t]]]

RECURSIVE ensure_all(_, _)
ensure_all(state, tokens) ==
    IF tokens = <<>> THEN state
    ELSE ensure_all(ensure_usage(state, Head(tokens)), Tail(tokens))

\* load_rotation_state: only the first call reads the file; a missing or
\* unparsable file leaves the default state
load_rotation_state(st, file) ==
    IF st.loaded THEN st
    ELSE [loaded |-> TRUE, state |-> IF file.kind = "state" THEN file.state
                                     ELSE RotationStateData_default]

\* save_rotation_state: write errors are ignored
\* (`lost` counts the writes that failed)
save_rotation_state(st, file, write_ok) ==
    IF write_ok THEN [kind |-> "state", state |-> st.state, lost |-> file.lost]
    ELSE [file EXCEPT !.lost = @ + 1]

check_daily_reset(state, t) ==
    IF state.last_reset = 0 THEN [state EXCEPT !.last_reset = t]
    ELSE IF t - state.last_reset < ResetIntervalMin THEN state
    ELSE [last_reset |-> t,
          usage |-> [k \in DOMAIN state.usage |->
                        [state.usage[k] EXCEPT !.count = 0, !.failed = FALSE]]]

\* get_available_tokens that ignores the daily limit
get_available_tokens_NoLimit(tokens, state, daily_limit) ==
    SelectSeq(tokens, LAMBDA token : ~get_usage(state, token).failed)

get_available_tokens(tokens, state, daily_limit) ==
    SelectSeq(tokens, LAMBDA token :
        ~(get_usage(state, token).failed \/ get_usage(state, token).count >= daily_limit))

\* ten times the score remaining * (1 + timeFactor), timeFactor being 10 for a
\* token never used and min(minutes since last use * 0.1, 10) otherwise
Score10(state, token, daily_limit, t) ==
    LET usage == get_usage(state, token)
        remaining == Max(daily_limit - usage.count, 0)
    IN remaining * (10 + (IF usage.last_used = 0 THEN 100
                          ELSE Min(t - usage.last_used, 100)))

RECURSIVE BestOf_LastWins(_, _, _, _, _, _)
\* the selection loop in which an equal score also replaces the selected token
BestOf_LastWins(available, state, daily_limit, t, best_score, selected) ==
    IF available = <<>> THEN selected
    ELSE LET token == Head(available)
             score == Score10(state, token, daily_limit, t)
         IN IF score >= best_score
            THEN BestOf_LastWins(Tail(available), state, daily_limit, t, score, token)
            ELSE BestOf_LastWins(Tail(available), state, daily_limit, t, best_score, selected)

RECURSIVE BestOf(_, _, _, _, _, _)
\* the selection loop: a strictly greater score replaces the selected token
BestOf(available, state, daily_limit, t, best_score, selected) ==
    IF available = <<>> THEN selected
    ELSE LET token == Head(available)
             score == Score10(state, token, daily_limit, t)
         IN IF score > best_score
            THEN BestOf(Tail(available), state, daily_limit, t, score, token)
            ELSE BestOf(Tail(available), state, daily_limit, t, best_score, selected)

\* get_next_sso that returns the first token of an all-failed list without
\* clearing any flag
get_next_sso_KeepFailed(state0, tokens, daily_limit, t) ==
    LET state == ensure_all(check_daily_reset(state0, t), tokens)
        available == get_available_tokens(tokens, state, daily_limit)
        all_failed == \A i \in 1..Len(tokens) : get_usage(state, tokens[i]).failed
        failed0 == {tokens[i] : i \in {j \in 1..Len(tokens) : get_usage(state, tokens[j]).failed}}
    IN IF available = <<>>
       THEN IF all_failed
            THEN [state |-> state,
                  saved |-> TRUE, branch |-> "all_failed", failed0 |-> failed0,
                  ret |-> IF tokens = <<>> THEN "None" ELSE Head(tokens)]
            ELSE [state |-> state, saved |-> FALSE, branch |-> "none", failed0 |-> failed0,
                  ret |-> "None"]
       ELSE [state |-> state, saved |-> FALSE, branch |-> "scored", failed0 |-> failed0,
             ret |-> BestOf(available, state, daily_limit, t, -10, available[1])]

\* get_next_sso on a loaded store: the new state, whether it is saved, the
\* branch taken, the returned token ("None": no token) and the input tokens
\* found marked failed when availability was computed
get_next_sso(state0, tokens, daily_limit, t) ==
    LET state == ensure_all(check_daily_reset(state0, t), tokens)
        available == get_available_tokens(tokens, state, daily_limit)
        all_failed == \A i \in 1..Len(tokens) : get_usage(state, tokens[i]).failed
        failed0 == {tokens[i] : i \in {j \in 1..Len(tokens) : get_usage(state, tokens[j]).failed}}
    IN IF available = <<>>
       THEN IF all_failed
            THEN [state |-> [state EXCEPT !.usage =
                               [k \in DOMAIN state.usage |->
                                  IF InSeq(k, tokens)
                                  THEN [state.usage[k] EXCEPT !.failed = FALSE]
                                  ELSE state.usage[k]]],
                  saved |-> TRUE, branch |-> "all_failed", failed0 |-> failed0,
                  ret |-> IF tokens = <<>> THEN "None" ELSE Head(tokens)]
            ELSE [state |-> state, saved |-> FALSE, branch |-> "none", failed0 |-> failed0,
                  ret |-> "None"]
       ELSE [state |-> state, saved |-> FALSE, branch |-> "scored", failed0 |-> failed0,
             ret |-> BestOf(available, state, daily_limit, t, -10, available[1])]

SetUsage(state, token, usage) ==
    LET st == ensure_usage(state, token) IN [st EXCEPT !.usage[token] = usage]

\* mark_failed that leaves the flag as it was
mark_failed_NoFlag(state, token) ==
    SetUsage(state, token, get_usage(state, token))

mark_failed(state, token) ==
    SetUsage(state, token, [get_usage(state, token) EXCEPT !.failed = TRUE])

mark_success(state, token) ==
    SetUsage(state, token, [get_usage(state, token) EXCEPT !.failed = FALSE])

\* record_usage that counts the use twice
record_usage_Twice(state, token, t) ==
    SetUsage(state, token, [get_usage(state, token) EXCEPT !.count = @ + 2, !.last_used = t])

record_usage(state, token, t) ==
    SetUsage(state, token, [get_usage(state, token) EXCEPT !.count = @ + 1, !.last_used = t])

set_age_verified(state, token, verified) ==
    SetUsage(state, token, [get_usage(state, token) EXCEPT !.age_verified = verified])

----------------------------------------------------------------------------
(* generate: the clients of the rotation store                             *)

Gens == {"g1"}
\* token lists returned by get_sso_tokens: trimmed, without repetition
SsoLists == {<<>>, <<"x">>, <<"x", "y">>}
DailyLimitInputs == {1, 2}
\* grok.imagine_max_retries and grok.imagine_blocked_retry (usize settings)
MaxRetriesInputs == {0, 3}
MaxBlockedRetriesInputs == {0, 2}
\* what do_generate returns; "unauthorized" takes the branch of "rate_limit_exceeded"
GenOutcomes == {"success", "blocked", "rate_limit_exceeded", "other"}
Ticks == {ResetIntervalMin}
\* files found at start: none, an unparsable one, one written by an earlier run
RotationFiles ==
    {[kind |-> "none", lost |-> 0], [kind |-> "garbage", lost |-> 0],
     [kind |-> "state", lost |-> 0,
      state |-> [last_reset |-> 1,
                 usage |-> [t \in {"x"} |->
                    [count |-> 1, last_used |-> 1, failed |-> TRUE, age_verified |-> 1]]]]}

\* what the rotation store clients leave alone
storeFrame == <<batchVars, mgr, storage, req, refresh, last, cred, lockVars>>

IdleGen == [pc |-> "idle", tokens |-> <<>>, daily_limit |-> 0, max_retries |-> 0,
            max_blocked_retries |-> 0, attempt |-> 0, blocked_retries |-> 0,
            current_sso |-> "None", error_code |-> "None", last_error |-> "None",
            result |-> "None", calls |-> 0]

NoSLast == [op |-> "none",
            ret |-> "None", branch |-> "None", failed0 |-> {}, write_ok |-> FALSE]

InitStore ==
    /\ store = [loaded |-> FALSE, state |-> RotationStateData_default]
    /\ rfile \in RotationFiles
    /\ now = 2
    /\ \E tokens \in SsoLists, daily_limit \in DailyLimitInputs,
          max_retries \in MaxRetriesInputs, max_blocked_retries \in MaxBlockedRetriesInputs :
           gen = [g \in Gens |-> [IdleGen EXCEPT !.tokens = tokens,
                                                !.daily_limit = daily_limit,
                                                !.max_retries = max_retries,
                                                !.max_blocked_retries = max_blocked_retries]]
    /\ slast = NoSLast
    /\ mgr = [pools |-> <<>>, initialized |-> FALSE]
    /\ storage = [doc |-> <<>>]
    /\ req = <<>>
    /\ refresh = <<>>
    /\ last = [op |-> "none"]
    /\ cred = [op |-> "none"]
    /\ ParkedLock
    /\ ParkedBatch

Tick(d) ==
    /\ now + d <= MaxNow
    /\ now' = now + d
    /\ UNCHANGED <<storeFrame, store, rfile, gen, slast>>

\* generate up to its retry loop, with the token list and the configuration
\* it reads (the same for every call)
GenStart(g) ==
    /\ gen[g].pc \in {"idle", "returned"}
    /\ gen[g].calls < MaxCalls
    /\ gen' = [gen EXCEPT ![g] =
                 [IdleGen EXCEPT !.pc = IF gen[g].tokens = <<>> THEN "returned" ELSE "next",
                                 !.result = IF gen[g].tokens = <<>>
                                            THEN "no_available_sso" ELSE "None",
                                 !.tokens = gen[g].tokens,
                                 !.daily_limit = gen[g].daily_limit,
                                 !.max_retries = Max(gen[g].max_retries, 1),
                                 !.max_blocked_retries = gen[g].max_blocked_retries,
                                 !.calls = gen[g].calls + 1]]
    /\ UNCHANGED <<storeFrame, store, rfile, now, slast>>

\* one get_next_sso call of the retry loop
GenNextSso(g, write_ok) ==
    /\ gen[g].pc = "next"
    /\ LET st == load_rotation_state(store, rfile)
           out == get_next_sso(st.state, gen[g].tokens, gen[g].daily_limit, now)
           st1 == [loaded |-> TRUE, state |-> out.state]
       IN /\ store' = st1
          /\ rfile' = IF out.saved THEN save_rotation_state(st1, rfile, write_ok) ELSE rfile
          /\ slast' = [NoSLast EXCEPT !.op = "get_next_sso", !.ret = out.ret,
                                      !.branch = out.branch,
                                      !.failed0 = out.failed0,
                                      !.write_ok = write_ok]
          /\ gen' = [gen EXCEPT ![g] =
                       IF out.ret = "None"
                       THEN [@ EXCEPT !.pc = "returned",
                                      !.result = IF gen[g].last_error = "None"
                                                 THEN "no_available_sso"
                                                 ELSE gen[g].last_error]
                       ELSE [@ EXCEPT !.pc = "age", !.current_sso = out.ret]]
    /\ UNCHANGED <<storeFrame, now>>

\* get_age_verified, and for a token not yet verified verify_age followed by
\* set_age_verified(1) when it succeeds
GenAge(g, verified, write_ok) ==
    /\ gen[g].pc = "age"
    /\ LET st == load_rotation_state(store, rfile)
           token == gen[g].current_sso
       IN IF get_usage(st.state, token).age_verified = 0 /\ verified
          THEN LET st1 == [st EXCEPT !.state = set_age_verified(st.state, token, 1)]
               IN /\ store' = st1
                  /\ rfile' = save_rotation_state(st1, rfile, write_ok)
                  /\ slast' = [NoSLast EXCEPT !.op = "set_age_verified",
                                              !.write_ok = write_ok]
          ELSE /\ store' = st
               /\ UNCHANGED <<rfile, slast>>
    /\ gen' = [gen EXCEPT ![g].pc = "generate"]
    /\ UNCHANGED <<storeFrame, now>>

\* do_generate returns
GenOutcome(g, outcome) ==
    /\ gen[g].pc = "generate"
    /\ gen' = [gen EXCEPT ![g] =
                 IF outcome = "success" THEN [@ EXCEPT !.pc = "mark_success"]
                 ELSE IF outcome = "other" THEN [@ EXCEPT !.pc = "returned", !.result = "other"]
                 ELSE [@ EXCEPT !.pc = "mark_failed", !.error_code = outcome]]
    /\ UNCHANGED <<storeFrame, store, rfile, now, slast>>

GenMarkSuccess(g, write_ok) ==
    /\ gen[g].pc = "mark_success"
    /\ LET st == load_rotation_state(store, rfile)
           st1 == [st EXCEPT !.state = mark_success(st.state, gen[g].current_sso)]
       IN /\ store' = st1
          /\ rfile' = save_rotation_state(st1, rfile, write_ok)
          /\ slast' = [NoSLast EXCEPT !.op = "mark_success",
                                      !.write_ok = write_ok]
    /\ gen' = [gen EXCEPT ![g].pc = "record_usage"]
    /\ UNCHANGED <<storeFrame, now>>

GenRecordUsage(g, write_ok) ==
    /\ gen[g].pc = "record_usage"
    /\ LET st == load_rotation_state(store, rfile)
           st1 == [st EXCEPT !.state = record_usage(st.state, gen[g].current_sso, now)]
       IN /\ store' = st1
          /\ rfile' = save_rotation_state(st1, rfile, write_ok)
          /\ slast' = [NoSLast EXCEPT !.op = "record_usage",
                                      !.write_ok = write_ok]
    /\ gen' = [gen EXCEPT ![g].pc = "returned", ![g].result = "success"]
    /\ UNCHANGED <<storeFrame, now>>

\* mark_failed after a blocked, rate-limited or unauthorized attempt, then the
\* loop's decision to return or to try again
GenMarkFailed(g, write_ok) ==
    /\ gen[g].pc = "mark_failed"
    /\ LET st == load_rotation_state(store, rfile)
           st1 == [st EXCEPT !.state = mark_failed(st.state, gen[g].current_sso)]
       IN /\ store' = st1
          /\ rfile' = save_rotation_state(st1, rfile, write_ok)
          /\ slast' = [NoSLast EXCEPT !.op = "mark_failed",
                                      !.write_ok = write_ok]
    /\ LET blocked == gen[g].error_code = "blocked"
           blocked_retries == gen[g].blocked_retries + (IF blocked THEN 1 ELSE 0)
           last_error == IF blocked THEN gen[g].last_error ELSE gen[g].error_code
           attempt == gen[g].attempt + 1
       IN gen' = [gen EXCEPT ![g] =
                    [@ EXCEPT !.blocked_retries = blocked_retries,
                              !.last_error = last_error,
                              !.attempt = attempt,
                              !.pc = IF (blocked /\ blocked_retries >= gen[g].max_blocked_retries)
                                        \/ attempt >= gen[g].max_retries
                                     THEN "returned" ELSE "next",
                              !.result =
                                  IF blocked /\ blocked_retries >= gen[g].max_blocked_retries
                                  THEN "blocked"
                                  ELSE IF attempt >= gen[g].max_retries
                                  THEN (IF last_error = "None" THEN "generation_failed"
                                        ELSE last_error)
                                  ELSE "None"]]
    /\ UNCHANGED <<storeFrame, now>>

\* outcomes of the next file write
WriteOks == IF rfile.lost < MaxLostWrites THEN BOOLEAN ELSE {TRUE}

NextStore ==
    \/ \E d \in Ticks : Tick(d)
    \/ \E g \in Gens : GenStart(g)
    \/ \E g \in Gens, write_ok \in WriteOks : GenNextSso(g, write_ok)
    \/ \E g \in Gens, verified \in BOOLEAN, write_ok \in WriteOks : GenAge(g, verified, write_ok)
    \/ \E g \in Gens, outcome \in GenOutcomes : GenOutcome(g, outcome)
    \/ \E g \in Gens, write_ok \in WriteOks : GenMarkSuccess(g, write_ok)
    \/ \E g \in Gens, write_ok \in WriteOks : GenRecordUsage(g, write_ok)
    \/ \E g \in Gens, write_ok \in WriteOks : GenMarkFailed(g, write_ok)

\* concurrent generate calls sharing the rotation store
SpecStore == InitStore /\ [][NextStore]_vars

----------------------------------------------------------------------------
(* two generate calls running at the same time on one rotation store:      *)
(* services/grok/imagine_nsfw.rs:761-787                                   *)

ConcurrentGens == {"g1", "g2"}

\* no rotation file yet, one attempt for each generate call
InitGens ==
    /\ store = [loaded |-> FALSE, state |-> RotationStateData_default]
    /\ rfile = [kind |-> "none", lost |-> 0]
    /\ now = 2
    /\ \E tokens \in SsoLists \ {<<>>}, daily_limit \in DailyLimitInputs :
           gen = [g \in ConcurrentGens |-> [IdleGen EXCEPT !.tokens = tokens,
                                                          !.daily_limit = daily_limit]]
    /\ slast = NoSLast
    /\ mgr = [pools |-> <<>>, initialized |-> FALSE]
    /\ storage = [doc |-> <<>>]
    /\ req = <<>>
    /\ refresh = <<>>
    /\ last = [op |-> "none"]
    /\ cred = [op |-> "none"]
    /\ ParkedLock
    /\ ParkedBatch

\* the steps of the two calls in any interleaving, every file write succeeding
NextGens ==
    \/ \E d \in Ticks : Tick(d)
    \/ \E g \in ConcurrentGens : GenStart(g)
    \/ \E g \in ConcurrentGens : GenNextSso(g, TRUE)
    \/ \E g \in ConcurrentGens, verified \in BOOLEAN : GenAge(g, verified, TRUE)
    \/ \E g \in ConcurrentGens, outcome \in GenOutcomes : GenOutcome(g, outcome)
    \/ \E g \in ConcurrentGens : GenMarkSuccess(g, TRUE)
    \/ \E g \in ConcurrentGens : GenRecordUsage(g, TRUE)
    \/ \E g \in ConcurrentGens : GenMarkFailed(g, TRUE)

SpecGens == InitGens /\ [][NextGens]_vars

----------------------------------------------------------------------------
(* Properties of the batch subsystem                                       *)

EmittedTerminal(c) == \E i \in 1..Len(stream[c].out) : stream[c].out[i].type \in Terminal

\* C1: every stream_batch stream that ends has emitted a terminal event (done,
\* error or cancelled) before it ended.
C1_StreamEndsWithTerminal ==
    \A c \in Clients : stream[c].pc = "ended" => EmittedTerminal(c)

\* C2: once the status of a batch task is Done, Error or Cancelled, no later
\* call changes the status or replaces the cached final event.
C2_TerminalAbsorbing ==
    [][task.status \in Terminal =>
         /\ task'.status = task.status
         /\ task'.final_event = task.final_event]_vars

Counters(t) == <<t.total, t.processed, t.ok, t.fail>>
Attaches(c) == stream[c].pc = "idle" /\ stream'[c].pc = "snapshot"

\* C18: final_event() is present exactly when the status is terminal and its
\* type is the status; a terminal call caches the event with the counters the
\* task has at that call and no other call touches it; attach changes nothing
\* but the subscriber list, and the channel attached to a finished task is
\* empty while the stream that checks final_event() ends with the cached event
C18_FinalEventCached ==
    /\ [](/\ final_event(task) # NoEvent <=> task.status \in Terminal
          /\ task.status \in Terminal => final_event(task).type = task.status)
    /\ [][/\ hist'.terminal_calls # hist.terminal_calls =>
                /\ Counters(task') = Counters(task)
                /\ final_event(task') = Event(task, task'.status)
          /\ hist'.terminal_calls = hist.terminal_calls =>
                /\ final_event(task') = final_event(task)
                /\ task'.status = task.status
          /\ \A c \in Clients :
                /\ Attaches(c) =>
                      /\ task' = [task EXCEPT !.queues = Append(task.queues, c)]
                      /\ task.status \in Terminal => chan'[c].buf = <<>>
                /\ (stream[c].pc = "check_final" /\ task.status \in Terminal) =>
                      (stream'[c].pc # "check_final" =>
                           /\ stream'[c].pc = "ended"
                           /\ stream'[c].out = Append(stream[c].out, final_event(task)))]_vars

\* a client attached after finish: it is subscribed, its channel is empty and
\* the done event with the counters of two recorded items is cached
C18_Witness ==
    \E c \in Clients :
        /\ stream[c].pc = "check_final"
        /\ InSeq(c, task.queues)
        /\ chan[c].buf = <<>>
        /\ task.status = "done"
        /\ final_event(task).type = "done"
        /\ final_event(task).processed = 2
        /\ task.processed = 2

\* C3: the number of worker invocations started and not yet resolved never
\* exceeds max(max_concurrent, 1).
C3_ConcurrencyCap == Cardinality(InFlight) <= max_concurrent

\* the semaphore is exhausted while the spawn loop of a chunk larger than
\* max_concurrent still has items to dispatch
C3_Witness ==
    /\ job.pc = "spawn"
    /\ batch_size > max_concurrent
    /\ Cardinality(InFlight) = max_concurrent
    /\ permits = 0

Range(seq) == {seq[i] : i \in 1..Len(seq)}
LastIndex(seq, n) == CHOOSE i \in 1..Len(seq) : seq[i] = n /\ \A j \in (i + 1)..Len(seq) : seq[j] # n
Distinct(seq) == \A i, j \in 1..Len(seq) : i # j => seq[i] # seq[j]

Awaited == IF job.pc = "join" THEN job.join - 1
           ELSE IF job.pc = "insert" THEN job.join
           ELSE job.chunk

\* C19: the completion callback is called exactly once for every item whose
\* worker has been awaited, in item order, with ok = whether that worker
\* returned success; each call is made after that worker resolved and before
\* the item's result is inserted, and no item of a later chunk is dispatched
\* before the callbacks of all earlier chunks have been made; without a
\* callback nothing is called
C19_CallbackOncePerItem ==
    /\ [](/\ Len(hist.calls) = IF job.on_item THEN Awaited ELSE 0
          /\ \A k \in 1..Len(hist.calls) :
                /\ hist.calls[k] = <<k, is_ok(worker[k])>>
                /\ Resolved(k))
    /\ [][/\ hist'.calls # hist.calls =>
                /\ job.pc = "join" /\ job'.pc = "insert"
                /\ hist'.calls = Append(hist.calls, <<job.join, is_ok(worker[job.join])>>)
                /\ Resolved(job.join)
                /\ job'.results = job.results
          /\ job'.results # job.results =>
                /\ job.pc = "insert"
                /\ job.on_item => hist.calls[Len(hist.calls)][1] = job.join
          /\ \A i \in 1..MaxItems :
                (worker[i] = "idle" /\ worker'[i] # "idle") =>
                    /\ i > job.chunk
                    /\ job.on_item => Len(hist.calls) = job.chunk]_vars

\* a run of three items in chunks of two: the first worker failed, the second
\* succeeded, both callbacks were made and the third item is being dispatched
C19_Witness ==
    /\ job.on_item
    /\ Len(job.items) = 3
    /\ batch_size = 2
    /\ job.pc = "spawn"
    /\ job.chunk = 2
    /\ hist.calls = <<<<1, FALSE>>, <<2, TRUE>>>>
    /\ worker[3] = "idle"

\* C6: once cancel() has been called while the executor of a bulk operation is
\* running, no further chunk is started and the task does not end in Done.
C6_CancelStopsExecutor ==
    [][hist.cancel_in_run =>
         /\ ~(job.pc = "chunk" /\ job'.pc = "spawn")
         /\ task'.status # "done"]_vars

\* C7: a task whose job has ended in a terminal state has an expiry scheduled
\* (or has already been removed); a task is never removed while Running.
C7_TerminalTaskExpires ==
    /\ (job.pc = "ended" /\ task.status \in Terminal) => expire \in {"pending", "fired"}
    /\ task.status = "running" => TaskId \in TASKS

----------------------------------------------------------------------------
(* Properties of the subscribers of a task (checked under SpecSub)         *)

\* a step of record, finish, fail_task or finish_cancelled
Publishes ==
    \/ task'.processed # task.processed
    \/ hist'.terminal_calls # hist.terminal_calls
\* the event that step hands to publish
Published ==
    IF task'.processed # task.processed
    THEN Event(task', "progress")
    ELSE task'.final_event
Subscribed(c) == InSeq(c, task.queues)

\* C25: publish never blocks the producer: record, finish, fail_task and
\* finish_cancelled can be taken whatever the state of the subscribers; a
\* subscriber whose channel is full or whose receiver is closed at publish
\* time is removed from the subscriber list and its channel gets nothing from
\* this or any later publish, while every other subscriber gets the event
C25_PublishNeverBlocks ==
    /\ [](/\ task.processed < MaxRecords => ENABLED TaskRecord(TRUE)
          /\ hist.terminal_calls = 0 =>
                /\ \A result \in TaskResults : ENABLED TaskFinish(result)
                /\ ENABLED TaskFailTask
                /\ ENABLED TaskFinishCancelled)
    /\ [][Publishes =>
            \A c \in Clients :
                IF Subscribed(c) /\ chan[c].rx_open /\ Len(chan[c].buf) < ChannelCap
                THEN /\ chan'[c] = [chan[c] EXCEPT !.buf = Append(@, Published)]
                     /\ InSeq(c, task'.queues)
                ELSE /\ chan'[c] = chan[c]
                     /\ ~InSeq(c, task'.queues)]_vars

\* the first client was dropped with a full channel and the second one holds a
\* later event than any the first one was sent
C25_Witness ==
    /\ ~Subscribed("c1") /\ chan["c1"].rx_open /\ Len(chan["c1"].buf) = ChannelCap
    /\ Subscribed("c2") /\ chan["c2"].buf # <<>>
    /\ chan["c2"].buf[Len(chan["c2"].buf)].processed
          > chan["c1"].buf[ChannelCap].processed

\* the progress events a client was sent: those its stream has forwarded,
\* then those waiting in its channel
Progress(c) ==
    SelectSeq(stream[c].out \o chan[c].buf, LAMBDA ev : ev.type = "progress")

\* C26: the events a subscriber receives are a contiguous run of the published
\* ones in publish order, starting with the first one published after its
\* attach: nothing published before the attach is in its channel, successive
\* progress events count up by exactly 1 from at most one above the snapshot,
\* and until it is evicted the run reaches the latest record
C26_ContiguousInOrder ==
    /\ [](\A c \in Clients :
            LET p == Progress(c)
                out == stream[c].out
            IN /\ \A i \in 1..(Len(p) - 1) : p[i + 1].processed = p[i].processed + 1
               /\ (p # <<>> /\ out # <<>>) => p[1].processed <= out[1].processed + 1
               /\ (p # <<>> /\ Subscribed(c)) => p[Len(p)].processed = task.processed
               /\ (p = <<>> /\ Subscribed(c) /\ out # <<>>) =>
                     task.processed = out[1].processed)
    /\ [][\A c \in Clients :
            /\ Attaches(c) => (chan'[c].buf = <<>> /\ InSeq(c, task'.queues))
            /\ (Subscribed(c) /\ task'.processed # task.processed
                   /\ InSeq(c, task'.queues)) =>
                  Progress(c)' = Append(Progress(c), Event(task', "progress"))]_vars

\* the second client attached after the first record: its stream forwarded
\* the snapshot and the second progress event and the third one waits in its
\* channel, while the first client was evicted before the third record
C26_Witness ==
    /\ Len(stream["c2"].out) = 2
    /\ stream["c2"].out[1].type = "snapshot" /\ stream["c2"].out[1].processed = 1
    /\ stream["c2"].out[2].type = "progress" /\ stream["c2"].out[2].processed = 2
    /\ Len(chan["c2"].buf) = 1 /\ chan["c2"].buf[1].processed = 3
    /\ Subscribed("c2")
    /\ ~Subscribed("c1") /\ Len(Progress("c1")) = ChannelCap

\* C27: a stream of stream_batch emits the task snapshot first, emits at most
\* one terminal event (done, error or cancelled) and emits nothing after it,
\* neither an event nor a heartbeat, however the terminal transition of the
\* task interleaves with the steps of the stream
C27_SnapshotFirstOneTerminal ==
    /\ [](\A c \in Clients :
            LET out == stream[c].out
            IN /\ out # <<>> => out[1].type = "snapshot"
               /\ out = <<>> => (stream[c].pc \in {"idle", "not_found", "snapshot"} /\ stream[c].pings = 0)
               /\ \A i \in 1..Len(out) :
                     out[i].type \in Terminal => (i = Len(out) /\ stream[c].pc = "ended"))
    /\ [][\A c \in Clients : stream[c].pc = "ended" => stream'[c] = stream[c]]_vars

\* the task reached its terminal state between a heartbeat and the re-check of
\* final_event: the stream ended with the snapshot and the cached terminal
\* event, and the published copy is left in the channel
C27_Witness ==
    \E c \in Clients :
        /\ stream[c].pc = "ended" /\ stream[c].pings = 1
        /\ Len(stream[c].out) = 2
        /\ stream[c].out[2].type \in Terminal
        /\ chan[c].buf # <<>> /\ chan[c].buf[1].type \in Terminal

C29_CancelSetsOnlyFlag ==
    [][/\ task'.cancelled # task.cancelled =>
             /\ task' = [task EXCEPT !.cancelled = TRUE]
             /\ chan' = chan
             /\ stream' = stream
       /\ (task'.status = "cancelled" /\ task.status # "cancelled") =>
             /\ hist'.terminal_calls = hist.terminal_calls + 1
             /\ task'.cancelled = task.cancelled
             /\ task'.final_event = Event(task', "cancelled")]_vars

\* a cancelled task that is still running, with a subscriber that was sent
\* nothing
C29_Witness ==
    /\ task.cancelled /\ task.status = "running" /\ task.final_event = NoEvent
    /\ task.processed > 0
    /\ Subscribed("c1") /\ chan["c1"].buf = <<>> /\ stream["c1"].pc = "recv"
    /\ Len(stream["c1"].out) = 1

\* the items of the job whose worker returned this outcome
ItemsWith(res) == {i \in 1..Len(job.items) : worker[i] = res}

\* C39: in the asynchronous quota refresh the outcome fed into the task is the
\* item's real outcome: when the task is Done its ok and fail counters are the
\* numbers of tokens whose quota sync succeeded and failed, and they agree
\* with the summary inside the result payload
C39_CountersMatchOutcomes ==
    (job.flow = "refresh" /\ task.status = "done") =>
        /\ task.ok = Cardinality(ItemsWith("Ok_true"))
        /\ task.fail = Cardinality(ItemsWith("Ok_false"))
        /\ task.ok = task.result.ok
        /\ task.fail = task.result.fail

----------------------------------------------------------------------------
(* Properties of the credential subsystem (checked under SpecCred)         *)

\* the credential the last manager call looked up
Touched == Credential(mgr.pools, last.token)

\* C8: after a consume or an update_quota call (any effort, any reported
\* quota, negative ones included) the credential's quota is >= 0, also when
\* several requests that selected the same credential consume it in turn
C8_QuotaNonNegative ==
    (last.op \in {"consume", "sync_usage"} /\ last.found) => Touched.quota >= 0

\* two requests selected the same credential and both consumed it; the second
\* consumption was clamped to the quota that was left
C8_Witness ==
    /\ last.op = "consume" /\ last.found
    /\ \A r \in Requests : req[r].pc = "done" /\ req[r].token = last.token
    /\ last.quota0 > 0
    /\ last.actual < effort_cost(last.effort)
    /\ Touched.use_count > last.actual
    /\ Touched.quota = 0

\* positions of the pool's credentials that are Active with quota > 0
Avail(tokens) == {i \in 1..Len(tokens) : tokens[i].status = "Active" /\ tokens[i].quota > 0}
\* those of them whose quota is the greatest
Best(tokens) ==
    {i \in Avail(tokens) : \A j \in Avail(tokens) : tokens[j].quota <= tokens[i].quota}

\* what get_token_for_model returned, against the pool it selected from
SelectReturnsBest ==
    LET tokens == PoolTokens(mgr.pools, last.pool)
    IN /\ last.ret # NoneStr =>
              \E i \in Best(tokens) : trim_sso(tokens[i].token) = last.ret
       /\ last.ret = NoneStr <=> Avail(tokens) = {}
       /\ select(tokens) = {tokens[i] : i \in Best(tokens)}

\* C9 (as stated): select returns only Active credentials with quota > 0 of
\* maximal quota, each of them is a possible result, it returns nothing exactly
\* when no credential is Active with quota > 0, and in that case
\* get_token_for_model has changed no credential
C9_NoneChangesNothing ==
    last.op = "get_token_for_model" =>
        /\ SelectReturnsBest
        /\ last.ret = NoneStr => ~last.changed

\* C9 (amended): the same selection; get_token_for_model changes the
\* credentials held in memory only through the reload of a stale manager that
\* precedes the selection, whatever it then returns
C9_SelectMaximal ==
    last.op = "get_token_for_model" =>
        /\ SelectReturnsBest
        /\ last.changed => last.reloaded

\* two Active credentials tie at the greatest quota and the second was returned
C9_Witness ==
    /\ last.op = "get_token_for_model"
    /\ LET tokens == PoolTokens(mgr.pools, last.pool)
       IN /\ Len(tokens) = 2
          /\ Best(tokens) = {1, 2}
          /\ tokens[1].token # tokens[2].token
          /\ last.ret = trim_sso(tokens[2].token)

\* C10: consume(effort) on a credential with quota q >= 0 lowers quota by
\* exactly min(cost, q) with cost 1 for Low and 4 for High, returns that
\* amount, raises use_count by the same amount and never raises quota
C10_ConsumeChargesMin ==
    (last.op = "consume" /\ last.found /\ last.quota0 >= 0) =>
        LET cost == IF last.effort = "Low" THEN 1 ELSE 4
            charged == Min(cost, last.quota0)
        IN /\ Touched.quota = last.quota0 - charged
           /\ last.actual = charged
           /\ Touched.use_count = last.use0 + charged
           /\ Touched.quota <= last.quota0

\* consume(High) on a credential with quota 2 charged 2 and left quota 0
C10_Witness ==
    /\ last.op = "consume" /\ last.found
    /\ last.effort = "High"
    /\ last.quota0 = 2
    /\ last.actual = 2
    /\ Touched.quota = 0
    /\ Touched.use_count = last.use0 + 2

----------------------------------------------------------------------------
(* Properties of one credential (checked under SpecToken)                  *)

\* C11: for a credential made by TokenInfo::new and mutated by consume,
\* update_quota, record_success, record_fail and reset: quota = 0 with a
\* status that is neither Disabled nor Expired means Cooling, Cooling means
\* quota = 0, and consume(Low) at quota 1 gives quota 0 and Cooling
C11_CoolingIffZero ==
    /\ (cred.info.quota = 0 /\ cred.info.status \notin {"Disabled", "Expired"})
           => cred.info.status = "Cooling"
    /\ cred.info.status = "Cooling" => cred.info.quota = 0
    /\ (cred.op = "consume" /\ cred.arg = "Low" /\ cred.prev.quota = 1)
           => (cred.info.quota = 0 /\ cred.info.status = "Cooling")

\* consume(Low) was called on an Active credential with quota 1
C11_Witness ==
    /\ cred.op = "consume" /\ cred.arg = "Low"
    /\ cred.prev.quota = 1 /\ cred.prev.status = "Active"
    /\ cred.info.status = "Cooling"

\* C12: record_fail(401) adds exactly 1 to fail_count, an Active credential
\* becomes Expired exactly when the count reaches 5 and never with a smaller
\* count, and consume and record_success put the count back to 0
C12_ExpiresAtFifthFailure ==
    /\ (cred.op = "record_fail" /\ cred.arg = 401) =>
           /\ cred.info.fail_count = cred.prev.fail_count + 1
           /\ cred.prev.status = "Active" =>
                  (cred.info.status = "Expired" <=> cred.info.fail_count >= 5)
    /\ cred.op \in {"consume", "record_success"} => cred.info.fail_count = 0
    /\ cred.info.status = "Expired" => cred.info.fail_count >= 5

\* the fifth authentication failure in a row expired an Active credential
C12_Witness ==
    /\ cred.op = "record_fail" /\ cred.arg = 401
    /\ cred.prev.status = "Active" /\ cred.prev.fail_count = 4
    /\ cred.info.status = "Expired" /\ cred.info.fail_count = 5

\* C13: record_fail with a status code other than 401 changes nothing of the
\* credential
C13_OtherCodesNoOp ==
    (cred.op = "record_fail" /\ cred.arg # 401) => cred.info = cred.prev

\* record_fail(500) on an Active credential one failure short of expiry
C13_Witness ==
    /\ cred.op = "record_fail" /\ cred.arg = 500
    /\ cred.prev.fail_count = 4
    /\ cred.info.status = "Active"

\* C14: once a credential is Expired, no consume, update_quota,
\* record_success or record_fail changes its status; only reset does
C14_ExpiredUntilReset ==
    (cred.op \in {"consume", "update_quota", "record_success", "record_fail"}
        /\ cred.prev.status = "Expired") => cred.info.status = "Expired"

\* C20: reset() from any prior state gives quota = 80, Active and
\* fail_count = 0, and a second reset changes nothing more
C20_ResetIdempotent ==
    cred.op = "reset" =>
        /\ cred.info.quota = 80
        /\ cred.info.status = "Active"
        /\ cred.info.fail_count = 0
        /\ reset(cred.info) = cred.info

\* reset() was called on an Expired credential with no quota left
C20_Witness ==
    /\ cred.op = "reset"
    /\ cred.prev.status = "Expired" /\ cred.prev.quota = 0 /\ cred.prev.fail_count >= 5
    /\ cred.info.status = "Active"

----------------------------------------------------------------------------
(* Properties of the TokenManager mutex (checked under SpecLock)           *)

\* C15: the TokenManager mutex is never held while a quota query is awaited:
\* neither the refresh worker nor the scheduled resync holds it while its
\* query is in flight, so a caller can take the mutex meanwhile
C15_NoLockAcrossQuery ==
    \A t \in {"refresh", "scheduler"} : proc[t].pc = "querying" => lock # t

\* one quota query of refresh_cooling_tokens is answered in this step
SchedAnswers == lock = "scheduler" /\ proc.scheduler.pc = "querying" /\ proc' # proc
AllCredentials(pools) == PoolTokenList(pools, DOMAIN pools)

\* C23: in a pass of refresh_cooling_tokens every candidate is stamped with
\* last_sync_at when its query is answered, and is then Expired (query failed)
\* or has a quota >= 0 with status Cooling at 0 and Active above; the other
\* credentials are unchanged; when the pass ends no credential is left Cooling
\* and never synced
C23_PassStampsCandidates ==
    [][SchedAnswers =>
          LET token_str == Head(proc.scheduler.to_refresh)
              tok == Credential(mgr'.pools, token_str)
              before == AllCredentials(mgr.pools)
              after == AllCredentials(mgr'.pools)
          IN /\ tok.last_sync_at = "Some"
             /\ \/ tok.status = "Expired"
                \/ /\ tok.quota >= 0
                   /\ tok.status = IF tok.quota = 0 THEN "Cooling" ELSE "Active"
             /\ Len(after) = Len(before)
             /\ \A i \in 1..Len(before) :
                   before[i].token # token_str => after[i] = before[i]
             /\ proc'.scheduler.pc = "sleep" =>
                   \A i \in 1..Len(after) :
                      ~(after[i].status = "Cooling" /\ after[i].last_sync_at = "None")]_vars

----------------------------------------------------------------------------
(* Properties of the TokenManager operations (checked under SpecMgr)       *)

RawTokens == {trim_sso(str) : str \in ArgTokens \cup AddTokens}
Held(pools, raw) == PoolOf(pools, raw) # "None"
\* the credential with this token was Cooling before the step and is Active after it
Revived(raw) ==
    /\ Held(mgr.pools, raw) /\ Held(mgr'.pools, raw)
    /\ Credential(mgr.pools, raw).status = "Cooling"
    /\ Credential(mgr'.pools, raw).status = "Active"

\* C24 as stated: a Cooling credential becomes Active only through a quota
\* overwrite with a positive value made by the scheduled resync or by
\* sync_usage
C24_OnlyQuotaOverwriteRevives ==
    [][\A raw \in RawTokens :
          Revived(raw) =>
              /\ last'.op \in {"refresh_cooling_tokens", "sync_usage"}
              /\ Credential(mgr'.pools, raw).quota > 0]_vars

\* C24 amended: a Cooling credential becomes Active only through a positive
\* quota written by the scheduled resync or sync_usage, through reset_token /
\* reset_all (quota back to the default), through a consume that leaves a
\* positive quota on a credential stored as Cooling with quota > 0, or through
\* a reload from storage; record_fail, add_tag, mark_asset_clear, add and
\* remove never do it, nor does consume on a Cooling credential with quota 0
C24_RevivedOnlyBy ==
    [][\A raw \in RawTokens :
          Revived(raw) =>
              LET before == Credential(mgr.pools, raw)
                  after == Credential(mgr'.pools, raw)
              IN \/ /\ last'.op \in {"refresh_cooling_tokens", "sync_usage"}
                    /\ after.quota > 0
                 \/ /\ last'.op \in {"reset_token", "reset_all"}
                    /\ after.quota = DEFAULT_QUOTA
                 \/ /\ last'.op = "consume"
                    /\ before.quota > 0
                    /\ after.quota > 0 /\ after.quota < before.quota
                 \/ last'.op = "reload"]_vars

\* the resync found x Cooling and due, was told 3 and made it Active with quota 3
C24_Witness ==
    /\ last.op = "refresh_cooling_tokens" /\ last.n = 1
    /\ Held(mgr.pools, Str(0, "x"))
    /\ Credential(mgr.pools, Str(0, "x")).status = "Active"
    /\ Credential(mgr.pools, Str(0, "x")).quota = 3
    /\ Credential(mgr.pools, Str(0, "x")).last_sync_at = "Some"

\* C30: after a manager operation that changed the pools and whose write
\* succeeded, the stored document equals the pools in memory and a reload
\* reproduces them; every operation that changes the pools calls save
C30_SavedEqualsMemory ==
    /\ [](last.saved /\ last.save_ok =>
             /\ storage.doc = mgr.pools
             /\ reload(mgr, storage.doc, TRUE).pools = mgr.pools)
    /\ [][(mgr'.pools # mgr.pools /\ last'.op # "reload") => last'.saved]_vars

\* the credential a consume step charges: held before and after the step
Charged(raw) == Held(mgr.pools, raw) /\ Held(mgr'.pools, raw)

\* C31: a failed storage write keeps the in-memory change and the operation
\* still reports success: a consume whose save fails returns true with the
\* quota charged in memory, and the step that follows it does not bring the
\* quota back (the decrement stays visible to later get_token and consume)
C31_FailedSaveNotRolledBack ==
    [][\A raw \in RawTokens :
          /\ (last'.op = "consume" /\ trim_sso(last'.token) = raw
                 /\ ~last'.save_ok /\ Held(mgr.pools, raw)) =>
                /\ last'.ret
                /\ Held(mgr'.pools, raw)
                /\ Credential(mgr'.pools, raw) =
                      consume(Credential(mgr.pools, raw), "Low").info
                   \/ Credential(mgr'.pools, raw) =
                      consume(Credential(mgr.pools, raw), "High").info
                /\ storage' = storage
          /\ (last.op = "consume" /\ trim_sso(last.token) = raw /\ last.ret
                 /\ ~last.save_ok /\ last'.op \in {"reload", "add_tag", "mark_asset_clear"}
                 /\ Charged(raw)) =>
                Credential(mgr'.pools, raw).quota = Credential(mgr.pools, raw).quota]_vars

\* the operations that are handed a token string and look the credential up
TokenOps == {"consume", "record_fail", "reset_token", "add_tag", "mark_asset_clear",
             "remove"}

\* C32: every operation that takes a token string finds the credential by its
\* trimmed identity, "sso=X" and "X" being the same token: called with either
\* form it returns true exactly when the pools hold the trimmed token, it
\* leaves every other credential alone, and after remove the credential is gone
C32_TrimmedIdentity ==
    [][last'.op \in TokenOps =>
          LET raw == trim_sso(last'.token)
          IN /\ last'.ret = Held(mgr.pools, raw)
             /\ \A other \in RawTokens \ {raw} :
                   Held(mgr.pools, other) =>
                      /\ Held(mgr'.pools, other)
                      /\ Credential(mgr'.pools, other) = Credential(mgr.pools, other)
             /\ Held(mgr'.pools, raw) = (Held(mgr.pools, raw) /\ last'.op # "remove")]_vars

\* the token strings of one pool, in pool order
TokensOf(tokens) == [i \in 1..Len(tokens) |-> tokens[i].token]

\* C33: no pool ever holds two credentials with the same token string: add
\* returns false and changes nothing when the named pool already holds the
\* trimmed token, and add, remove, consume, reset and load / reload from the
\* token document keep the tokens of a pool distinct
C33_UniqueTokens ==
    /\ [](\A name \in DOMAIN mgr.pools : Distinct(TokensOf(mgr.pools[name])))
    /\ [][(last'.op = "add" /\ "ssoBasic" \in DOMAIN mgr.pools
             /\ Find(mgr.pools["ssoBasic"], trim_sso(last'.token)) # 0) =>
            (~last'.ret /\ mgr' = mgr /\ storage' = storage)]_vars

\* TokenManager::get_token reports exhaustion for every pool
Exhausted(m) == \A pool \in PoolNames : select(PoolTokens(m.pools, pool)) = {}

\* C40: load does nothing once the manager is initialized, and reload replaces
\* the pool set with what storage returns; a failed read during load or reload
\* is swallowed: the manager is initialized with no pool at all, whatever it
\* held before, and get_token reports exhaustion for every pool
C40_LoadOnceReloadReplaces ==
    /\ [](/\ mgr.initialized
          /\ (last.n = 0 /\ last.ret) => mgr.pools = ParsePools(storage.doc)
          /\ (last.op \in {"load", "reload"} /\ ~last.ret /\ (last.op = "load" => last.n = 0)) =>
                (mgr.pools = <<>> /\ Exhausted(mgr)))
    /\ [][/\ last'.op = "load" => (mgr' = mgr /\ storage' = storage)
          /\ last'.op = "reload" =>
                /\ mgr'.initialized
                /\ storage' = storage
                /\ mgr'.pools = IF last'.ret THEN ParsePools(storage.doc) ELSE <<>>]_vars

\* the manager held credentials, a reload could not read the document that
\* still lists them, and the manager is left with no pool
C40_Witness ==
    /\ last.op = "reload" /\ ~last.ret /\ last.n = 2
    /\ mgr.initialized /\ mgr.pools = <<>>
    /\ Len(PoolTokens(storage.doc, "ssoBasic")) = 2

\* C37: a Disabled credential stays excluded: select never returns it, and no
\* consume, sync_usage (update_quota and record_success), record_fail or
\* resync step changes its status; only reset or removal does
C37_DisabledStays ==
    /\ [](\A pool \in PoolNames :
             \A t \in select(PoolTokens(mgr.pools, pool)) : t.status # "Disabled")
    /\ [][\A raw \in RawTokens :
            (/\ Held(mgr.pools, raw) /\ Held(mgr'.pools, raw)
             /\ Credential(mgr.pools, raw).status = "Disabled"
             /\ last'.op \in {"consume", "sync_usage", "record_fail",
                              "refresh_cooling_tokens", "add_tag", "mark_asset_clear"}) =>
                Credential(mgr'.pools, raw).status = "Disabled"]_vars

\* C38: an external token-set update is not lost: when update_tokens_api has
\* written the submitted document and its reload has read storage, the stored
\* document and the pools of the manager are the submitted document, whatever
\* a concurrent request has consumed and saved in between
C38_UpdateNotLost ==
    [][(last'.op = "update_reload" /\ last'.found) =>
          /\ storage'.doc = SubmittedDoc
          /\ mgr'.pools = ParsePools(SubmittedDoc)]_vars

----------------------------------------------------------------------------
(* Properties of the rotation store (checked under SpecStore)              *)

\* the token list and the daily limit every generate call works with
CfgTokens == gen[CHOOSE g \in Gens : TRUE].tokens
CfgLimit == gen[CHOOSE g \in Gens : TRUE].daily_limit
Usage(token) == get_usage(store.state, token)
Qualifies(token) == ~Usage(token).failed /\ Usage(token).count < CfgLimit

\* C16: outside the all-failed case get_next_sso returns only a token that is
\* not failed and has count < dailyLimit, and returns none exactly when no
\* token of the list qualifies; so a single token with dailyLimit 2 is
\* returned while its count is below 2 and not any more once it is 2
C16_ReturnsOnlyAvailable ==
    (slast.op = "get_next_sso" /\ slast.branch # "all_failed") =>
        /\ slast.ret # "None" => (InSeq(slast.ret, CfgTokens) /\ Qualifies(slast.ret))
        /\ slast.ret = "None" <=> \A i \in 1..Len(CfgTokens) : ~Qualifies(CfgTokens[i])
        /\ (CfgTokens = <<"x">> /\ CfgLimit = 2 /\ ~Usage("x").failed) =>
               (slast.ret = "None" <=> Usage("x").count >= 2)

\* the third generate call on a single token with dailyLimit 2 got no token:
\* the token has been used twice and is not failed
C16_Witness ==
    /\ slast.op = "get_next_sso" /\ slast.branch = "none" /\ slast.ret = "None"
    /\ CfgTokens = <<"x">> /\ CfgLimit = 2
    /\ Usage("x").count = 2 /\ ~Usage("x").failed
    /\ \E g \in Gens : gen[g].calls = 3 /\ gen[g].result = "no_available_sso"

\* C17: with no available token and every input token failed, get_next_sso
\* clears the failed flag of every input token, saves the state and returns
\* the first token; with no available token and some token not failed it
\* returns none and clears no flag
C17_AllFailedSelfHeal ==
    slast.op = "get_next_sso" =>
        LET input == {CfgTokens[i] : i \in 1..Len(CfgTokens)}
            failed_now == {t \in input : Usage(t).failed}
        IN /\ slast.branch = "all_failed" <=> slast.failed0 = input
           /\ slast.branch = "all_failed" =>
                  /\ failed_now = {}
                  /\ slast.ret = Head(CfgTokens)
                  /\ slast.write_ok => (rfile.kind = "state" /\ rfile.state = store.state)
           /\ slast.branch = "none" =>
                  /\ slast.ret = "None"
                  /\ failed_now = slast.failed0
                  /\ slast.failed0 # input

\* both tokens of the list were failed: the flags were cleared and the first
\* token returned
C17_Witness ==
    /\ slast.op = "get_next_sso" /\ slast.branch = "all_failed"
    /\ CfgTokens = <<"x", "y">>
    /\ slast.failed0 = {"x", "y"}
    /\ slast.ret = "x"
    /\ ~Usage("x").failed /\ ~Usage("y").failed
    /\ slast.write_ok

\* the step in which a generate call that has failed attempts behind it
\* obtains the token of its next attempt
Retries(g) == gen[g].pc = "next" /\ gen[g].attempt > 0 /\ gen'[g].pc = "age"
\* the rolling reset is due at the next get_next_sso
RolledOver == store.state.last_reset # 0 /\ now - store.state.last_reset >= ResetIntervalMin

GenerateSteps(g, nth) ==
    LET c == gen[g].current_sso
        returns == gen[g].pc # "returned" /\ gen'[g].pc = "returned"
    IN \* an upstream attempt is made only below the retry bound
       /\ gen[g].pc = "generate" => gen[g].attempt < Max(gen[g].max_retries, 1)
       /\ (gen[g].pc = "generate" /\ gen'[g].pc # "generate") =>
             /\ gen'[g].attempt = gen[g].attempt
             /\ store' = store
       /\ gen'[g].attempt # gen[g].attempt =>
             \/ gen[g].pc = "mark_failed" /\ gen'[g].attempt = gen[g].attempt + 1
             \/ gen'[g].pc \in {"next", "returned"} /\ gen'[g].attempt = 0
       \* success: flag cleared, count incremented once, the call returns
       /\ (gen[g].pc = "mark_success" /\ gen'[g].pc # "mark_success") =>
             /\ gen'[g].pc = "record_usage"
             /\ ~get_usage(store'.state, c).failed
             /\ get_usage(store'.state, c).count = get_usage(store.state, c).count
       /\ (gen[g].pc = "record_usage" /\ gen'[g].pc # "record_usage") =>
             /\ returns /\ gen'[g].result = "success"
             /\ ~get_usage(store'.state, c).failed
             /\ get_usage(store'.state, c).count = get_usage(store.state, c).count + 1
             /\ \A t \in SsoNames \ {c} :
                   get_usage(store'.state, t).count = get_usage(store.state, t).count
       \* blocked: the call gives up at the nth blocked outcome
       /\ (gen[g].pc = "mark_failed" /\ gen'[g].pc # "mark_failed") =>
             /\ gen'[g].blocked_retries =
                   gen[g].blocked_retries + (IF gen[g].error_code = "blocked" THEN 1 ELSE 0)
             /\ (gen[g].error_code = "blocked" /\ gen'[g].blocked_retries >= nth) =>
                   (returns /\ gen'[g].result = "blocked")
             /\ gen'[g].result = "blocked" => gen'[g].blocked_retries = nth
             /\ gen'[g].pc = "next" => gen'[g].attempt < Max(gen[g].max_retries, 1)
       \* every return is one of: success, blocked limit, no token, other error,
       \* retries used up
       /\ returns =>
             \/ gen[g].pc = "record_usage" /\ gen'[g].result = "success"
             \/ gen[g].pc = "mark_failed" /\ gen'[g].result = "blocked"
             \/ /\ gen[g].pc = "mark_failed"
                /\ gen'[g].attempt = Max(gen[g].max_retries, 1)
                /\ gen'[g].result \in {"rate_limit_exceeded", "generation_failed"}
             \/ /\ gen[g].pc = "next" /\ slast'.ret = "None"
                /\ gen'[g].result \in {"no_available_sso", "rate_limit_exceeded"}
             \/ gen[g].pc = "idle" /\ gen[g].tokens = <<>> /\ gen'[g].result = "no_available_sso"
             \/ /\ gen[g].pc = "generate" /\ gen'[g].result = "other"
                /\ store' = store /\ gen'[g].attempt = gen[g].attempt
       /\ (gen[g].pc = "next" /\ gen'[g].pc # "next" /\ slast'.ret = "None") => returns

\* C22 as stated: generate makes at most max(max_retries, 1) upstream
\* attempts and returns at the first success (flag cleared, count incremented
\* once), at the max_blocked_retries-th blocked outcome with the blocked error,
\* when no token is available, or at once on any other error without marking
\* the token failed
C22_GenerateBounded ==
    [][\A g \in Gens : GenerateSteps(g, gen[g].max_blocked_retries)]_vars

\* C22 amended: as above, the blocked error being returned at the
\* max(max_blocked_retries, 1)-th blocked outcome
C22_GenerateBoundedFirstBlocked ==
    [][\A g \in Gens : GenerateSteps(g, Max(gen[g].max_blocked_retries, 1))]_vars

\* a call that gave up with the blocked error at its second blocked outcome,
\* one attempt short of its retry bound
C22_Witness ==
    \E g \in Gens :
        /\ gen[g].pc = "returned" /\ gen[g].result = "blocked"
        /\ gen[g].max_blocked_retries = 2 /\ gen[g].blocked_retries = 2
        /\ gen[g].max_retries = 3 /\ gen[g].attempt = 2

\* ten times remaining * (1 + timeFactor) of a token in the state a
\* get_next_sso step leaves
ScoreAfter(token, daily_limit) ==
    LET usage == get_usage(store'.state, token)
        remaining == IF daily_limit - usage.count > 0 THEN daily_limit - usage.count ELSE 0
        timeFactor10 == IF usage.last_used = 0 THEN 100
                        ELSE IF now - usage.last_used < 100 THEN now - usage.last_used ELSE 100
    IN remaining * (10 + timeFactor10)

\* C34: when get_next_sso selects among available tokens, the token it
\* returns is available, no available token has a higher score
\* remaining * (1 + timeFactor), and every available token that comes earlier
\* in the input list has a strictly lower score
C34_HighestScoreFirstWins ==
    [][\A g \in Gens :
          (gen[g].pc = "next" /\ gen'[g].pc = "age" /\ slast'.branch = "scored") =>
              LET tokens == gen[g].tokens
                  limit == gen[g].daily_limit
                  avail == {i \in 1..Len(tokens) :
                               /\ ~get_usage(store'.state, tokens[i]).failed
                               /\ get_usage(store'.state, tokens[i]).count < limit}
              IN \E i \in avail :
                    /\ tokens[i] = gen'[g].current_sso
                    /\ \A j \in avail :
                          /\ ScoreAfter(tokens[j], limit) <= ScoreAfter(tokens[i], limit)
                          /\ j < i => ScoreAfter(tokens[j], limit) < ScoreAfter(tokens[i], limit)]_vars

\* both tokens of the list were available and the second, never used, was
\* returned before the first, which had been used once
C34_Witness ==
    /\ slast.op = "get_next_sso" /\ slast.branch = "scored" /\ slast.ret = "y"
    /\ CfgTokens = <<"x", "y">> /\ CfgLimit = 2
    /\ Qualifies("x") /\ Qualifies("y")
    /\ Usage("x").count = 1 /\ Usage("y").last_used = 0
    /\ \E g \in Gens : gen[g].pc = "age" /\ gen[g].current_sso = "y"

\* the step in which generate call g gets a store operation of the named
\* kinds back: get_next_sso, mark_success, record_usage, mark_failed, or a
\* set_age_verified that changed the state
StoreOpReturns(g) ==
    \/ gen[g].pc \in {"next", "mark_success", "record_usage", "mark_failed"}
          /\ gen'[g].pc # gen[g].pc
    \/ gen[g].pc = "age" /\ gen'[g].pc = "generate" /\ store'.state # store.state

\* C35: when no file write has failed, after each store operation returns
\* (get_next_sso with its lazy record creation and rolling reset, mark_failed,
\* mark_success, record_usage, set_age_verified) the document on disk equals
\* the rotation state in memory
C35_DiskEqualsMemory ==
    [][\A g \in Gens :
          (StoreOpReturns(g) /\ slast'.write_ok /\ rfile'.lost = 0) =>
              (rfile'.kind = "state" /\ rfile'.state = store'.state)]_vars

\* C36 (checked under SpecGens): the usage count of no token ever exceeds
\* the daily limit the generate calls work with
C36_CountWithinLimit ==
    \A token \in DOMAIN store.state.usage :
        store.state.usage[token].count <= gen["g1"].daily_limit

====
